---- MODULE Spec2Model ----
(***************************************************************************)
(* Storage layer of the PatchFest backend: the FileStorage and             *)
(* MemoryStorage adapters, the DefaultCollections module object they       *)
(* share, and StorageFactory / StorageManager.                             *)
(*                                                                         *)
(* Values.  A record is a function from field names to values.  Record ids *)
(* are integers: a positive id n is the n-th string returned by            *)
(* generateId() in this process (timestamp plus random suffix, taken to be *)
(* fresh), 0 is a falsy id sent by a client ("" / 0 / null), a negative id *)
(* is a string chosen by a client or found in a file written by an earlier *)
(* process.  Timestamps are integers: toISOString() yields fixed-width UTC *)
(* strings whose order is the order of the instants.                       *)
(***************************************************************************)
EXTENDS Integers, Sequences, FiniteSets, TLC

VARIABLES
    env,                 \* process.env: NODE_ENV, STORAGE_TYPE, DEV_STORAGE ("" = unset)
    file,                \* the storage file on disk
    DefaultCollections,  \* the exported module object DefaultCollections
    data,                \* MemoryStorage.data
    manager,             \* StorageManager: storage (its adapter class and which
                         \* instance it is, 0 = null), initialized
    clock,               \* the system clock
    idCounter,           \* number of ids generateId() has returned
    last,                \* the last call and what it returned
    deleted,             \* (collection, id) pairs deleted with no createRecord since
    ops,                 \* number of changing storage calls made so far
    peer,                \* a second process (its file, module object and memory data),
                         \* used when the two adapters are run side by side
    calls                \* the async calls in flight, by caller: awaiting or returned

vars == <<env, file, DefaultCollections, data, manager, clock, idCounter, last, deleted,
          ops, peer, calls>>

-----------------------------------------------------------------------------
(* Bounds *)

MaxClock == 1
MaxOps == 3

-----------------------------------------------------------------------------
(* Values drawn for the inputs *)

Names == {"users", "_healthTest"}

ForgedTime == MaxClock + 1

ClientId == 0 - 1

OldId == 0 - 2

EmptyMap == [k \in {} |-> 0]

\* {...a, ...b}
Merge(a, b) ==
    [k \in (DOMAIN a) \cup (DOMAIN b) |-> IF k \in DOMAIN b THEN b[k] ELSE a[k]]

\* obj[k] = v
Put(obj, k, v) ==
    [x \in (DOMAIN obj) \cup {k} |-> IF x = k THEN v ELSE obj[x]]

\* delete obj[k]
Remove(obj, k) == [x \in (DOMAIN obj) \ {k} |-> obj[x]]

\* JavaScript truthiness of an id value
Truthy(v) == v # 0

\* request bodies for createRecord: plain, carrying an id, carrying timestamps
Payloads(ids) ==
    {[name |-> "a"]}
      \cup {[name |-> "a", id |-> i] : i \in ids}
      \cup {[name |-> "a", createdAt |-> ForgedTime, updatedAt |-> ForgedTime]}

\* request bodies for updateRecord: one field, or the reserved fields
Patches ==
    {[name |-> "b"],
     [id |-> ClientId, createdAt |-> ForgedTime, updatedAt |-> ForgedTime]}

RECURSIVE SumLen(_, _)
SumLen(doc, keys) ==
    IF keys = {} THEN 0
    ELSE LET c == CHOOSE x \in keys : TRUE
         IN Len(doc[c]) + SumLen(doc, keys \ {c})

\* records.find(record => record.id === id): index of the first match, 0 if none
FindIndex(records, id) ==
    IF \E i \in 1..Len(records) : records[i].id = id
    THEN CHOOSE i \in 1..Len(records) :
            /\ records[i].id = id
            /\ \A j \in 1..(i - 1) : records[j].id # id
    ELSE 0

\* records.filter(record => record.id !== id)
RECURSIVE FilterOut(_, _)
FilterOut(records, id) ==
    IF records = <<>> THEN <<>>
    ELSE IF Head(records).id = id THEN FilterOut(Tail(records), id)
         ELSE <<Head(records)>> \o FilterOut(Tail(records), id)

-----------------------------------------------------------------------------
(* DefaultCollections, src/interfaces/storageInterface.js *)

Seed == [c \in {"users", "posts", "comments"} |-> <<>>]

-----------------------------------------------------------------------------
(* Results of a call *)

Threw == [tag |-> "threw"]
Null == [tag |-> "null"]
Void == [tag |-> "void"]
Rec(r) == [tag |-> "record", val |-> r]
Bool(b) == [tag |-> "bool", val |-> b]
List(s) == [tag |-> "list", val |-> s]

\* what a call leaves behind: the heap (file, module object, memory data) and its result
Out(h, ret, gen) == [h |-> h, ret |-> ret, gen |-> gen]

-----------------------------------------------------------------------------
(* The storage file *)

Absent == [kind |-> "absent"]
Garbage == [kind |-> "garbage"]
Scalar == [kind |-> "scalar"]
\* a JSON object: its array-valued keys, and whether it holds _healthCheck: true
DocFile(doc, hc) == [kind |-> "doc", doc |-> doc, hc |-> hc]

\* the object read() returns on ENOENT is DefaultCollections itself
FromDefault(h) == h.file.kind = "absent"

\* FileStorage.read throws: readFile fails, or JSON.parse rejects the contents
FileReadThrows(h, fail) == fail = "read" \/ h.file.kind = "garbage"

\* FileStorage.read: the array-valued keys of the object it returns
FileRead(h) == IF FromDefault(h) THEN h.DefaultCollections ELSE h.file.doc

\* whether the object read() returns has the key _healthCheck
FileReadHc(h) == IF FromDefault(h) THEN FALSE ELSE h.file.hc

\* FileStorage.write: JSON.stringify + writeFile replaces the file's contents
FileWrite(h, doc, hc) == [h EXCEPT !.file = DocFile(doc, hc)]

-----------------------------------------------------------------------------
(* MemoryStorage.data: each key holds an array, which is either the array  *)
(* object of DefaultCollections under the same key (shared) or its own.    *)

Shared == [shared |-> TRUE, recs |-> <<>>]
Own(recs) == [shared |-> FALSE, recs |-> recs]

\* the records of this.data[c]
MemRecs(h, c) ==
    IF h.data[c].shared THEN h.DefaultCollections[c] ELSE h.data[c].recs

\* { ...DefaultCollections }: a shallow copy, the arrays are the same objects
ShallowCopyDefaults(h) == [c \in DOMAIN h.DefaultCollections |-> Shared]

\* in-place change of the array this.data[c] (push, index assignment)
MemMutate(h, c, recs) ==
    IF h.data[c].shared
    THEN [h EXCEPT !.DefaultCollections = Put(@, c, recs)]
    ELSE [h EXCEPT !.data = Put(@, c, Own(recs))]

\* DefaultCollections[c] = <new array>: this.data[c] keeps the old array object
ReassignDefault(h, c, recs) ==
    LET d == IF c \in DOMAIN h.data /\ h.data[c].shared
             THEN Put(h.data, c, Own(h.DefaultCollections[c]))
             ELSE h.data
    IN [h EXCEPT !.data = d, !.DefaultCollections = Put(@, c, recs)]

-----------------------------------------------------------------------------
(* Record construction, common to both adapters *)

\* record.id || this.generateId()
PickId(record, gen) ==
    IF "id" \in DOMAIN record /\ Truthy(record.id) THEN record.id ELSE gen

\* whether createRecord calls generateId()
Generates(record) == ~("id" \in DOMAIN record /\ Truthy(record.id))

\* { ...record, id, createdAt: new Date(), updatedAt: new Date() }
NewRecord(record, gen, t1, t2) ==
    Merge(record, [id |-> PickId(record, gen), createdAt |-> t1, updatedAt |-> t2])

\* an update that replaces the record by the patch instead of merging
UpdatedRecordReplaced(old, updates, id, now) ==
    Merge(updates, [id |-> id, updatedAt |-> now])

\* { ...old, ...updates, id, updatedAt: new Date() }
UpdatedRecord(old, updates, id, now) ==
    Merge(Merge(old, updates), [id |-> id, updatedAt |-> now])

-----------------------------------------------------------------------------
(* FileStorage *)

\* FileStorage.init; fail is "init" when mkdir or the write is refused
FileInit(h, fail) ==
    IF fail = "init" THEN Out(h, Threw, FALSE)
    ELSE IF h.file.kind = "garbage" THEN Out(h, Threw, FALSE)
    ELSE IF h.file.kind \in {"absent", "scalar"}
         THEN Out(FileWrite(h, h.DefaultCollections, FALSE), Void, FALSE)
    ELSE Out(h, Void, FALSE)

\* FileStorage.getCollection
FileGetCollection(h, collection, fail) ==
    IF FileReadThrows(h, fail) THEN Threw
    ELSE IF h.file.kind = "scalar" THEN List(<<>>)
    ELSE IF collection \in DOMAIN FileRead(h) THEN List(FileRead(h)[collection])
    ELSE List(<<>>)

\* FileStorage.getRecord
FileGetRecord(h, collection, id, fail) ==
    LET got == FileGetCollection(h, collection, fail)
    IN IF got.tag = "threw" THEN Threw
       ELSE IF FindIndex(got.val, id) = 0 THEN Null
       ELSE Rec(got.val[FindIndex(got.val, id)])

\* a createRecord that stores nothing when the collection does not exist
FileCreateRecordNoAutoCreate(h, collection, record, gen, t1, t2, fail) ==
    IF FileReadThrows(h, fail) \/ h.file.kind = "scalar" THEN Out(h, Threw, FALSE)
    ELSE
      LET doc0 == FileRead(h)
          newRecord == NewRecord(record, gen, t1, t2)
          doc2 == IF collection \in DOMAIN doc0
                  THEN Put(doc0, collection, Append(doc0[collection], newRecord))
                  ELSE doc0
          h1 == IF FromDefault(h) THEN [h EXCEPT !.DefaultCollections = doc2] ELSE h
      IN IF fail = "write" THEN Out(h1, Threw, Generates(record))
         ELSE Out(FileWrite(h1, doc2, FileReadHc(h)), Rec(newRecord), Generates(record))

\* FileStorage.createRecord
FileCreateRecord(h, collection, record, gen, t1, t2, fail) ==
    IF FileReadThrows(h, fail) \/ h.file.kind = "scalar" THEN Out(h, Threw, FALSE)
    ELSE
      LET doc0 == FileRead(h)
          doc1 == IF collection \in DOMAIN doc0 THEN doc0 ELSE Put(doc0, collection, <<>>)
          newRecord == NewRecord(record, gen, t1, t2)
          doc2 == Put(doc1, collection, Append(doc1[collection], newRecord))
          h1 == IF FromDefault(h) THEN [h EXCEPT !.DefaultCollections = doc2] ELSE h
      IN IF fail = "write" THEN Out(h1, Threw, Generates(record))
         ELSE Out(FileWrite(h1, doc2, FileReadHc(h)), Rec(newRecord), Generates(record))

\* FileStorage.updateRecord
FileUpdateRecord(h, collection, id, updates, now, fail) ==
    IF FileReadThrows(h, fail) \/ h.file.kind = "scalar" THEN Out(h, Threw, FALSE)
    ELSE
      LET doc0 == FileRead(h)
      IN IF collection \notin DOMAIN doc0 THEN Out(h, Null, FALSE)
         ELSE
           LET recordIndex == FindIndex(doc0[collection], id)
           IN IF recordIndex = 0 THEN Out(h, Null, FALSE)
              ELSE
                LET upd == UpdatedRecord(doc0[collection][recordIndex], updates, id, now)
                    doc1 == Put(doc0, collection,
                                [doc0[collection] EXCEPT ![recordIndex] = upd])
                    h1 == IF FromDefault(h)
                          THEN [h EXCEPT !.DefaultCollections = doc1] ELSE h
                IN IF fail = "write" THEN Out(h1, Threw, FALSE)
                   ELSE Out(FileWrite(h1, doc1, FileReadHc(h)), Rec(upd), FALSE)

\* a deleteRecord that writes the collection back without any of its records
FileDeleteRecordEmptying(h, collection, id, fail) ==
    IF FileReadThrows(h, fail) \/ h.file.kind = "scalar" THEN Out(h, Threw, FALSE)
    ELSE
      LET doc0 == FileRead(h)
      IN IF collection \notin DOMAIN doc0 THEN Out(h, Bool(FALSE), FALSE)
         ELSE
           LET kept == FilterOut(doc0[collection], id)
               doc1 == Put(doc0, collection, <<>>)
               h1 == IF FromDefault(h) THEN ReassignDefault(h, collection, <<>>) ELSE h
           IN IF Len(kept) = Len(doc0[collection]) THEN Out(h1, Bool(FALSE), FALSE)
              ELSE IF fail = "write" THEN Out(h1, Threw, FALSE)
              ELSE Out(FileWrite(h1, doc1, FileReadHc(h)), Bool(TRUE), FALSE)

\* FileStorage.deleteRecord
FileDeleteRecord(h, collection, id, fail) ==
    IF FileReadThrows(h, fail) \/ h.file.kind = "scalar" THEN Out(h, Threw, FALSE)
    ELSE
      LET doc0 == FileRead(h)
      IN IF collection \notin DOMAIN doc0 THEN Out(h, Bool(FALSE), FALSE)
         ELSE
           LET kept == FilterOut(doc0[collection], id)
               doc1 == Put(doc0, collection, kept)
               h1 == IF FromDefault(h) THEN ReassignDefault(h, collection, kept) ELSE h
           IN IF Len(kept) = Len(doc0[collection]) THEN Out(h1, Bool(FALSE), FALSE)
              ELSE IF fail = "write" THEN Out(h1, Threw, FALSE)
              ELSE Out(FileWrite(h1, doc1, FileReadHc(h)), Bool(TRUE), FALSE)

\* FileStorage.getStats: totalRecords, totalCollections and the per-key counts
FileGetStats(h, fail) ==
    IF FileReadThrows(h, fail) THEN Threw
    ELSE IF h.file.kind = "scalar"
         THEN [tag |-> "stats", storageType |-> "file", totalCollections |-> 0,
               totalRecords |-> 0, collections |-> EmptyMap]
    ELSE
      LET doc == FileRead(h)
          extra == IF FileReadHc(h) THEN {"_healthCheck"} ELSE {}
      IN [tag |-> "stats", storageType |-> "file",
          totalCollections |-> Cardinality(DOMAIN doc) + Cardinality(extra),
          totalRecords |-> SumLen(doc, DOMAIN doc),
          collections |-> [c \in (DOMAIN doc) \cup extra |->
                              IF c \in DOMAIN doc THEN Len(doc[c]) ELSE 0]]

\* FileStorage.clear
FileClear(h, fail) ==
    IF fail = "write" THEN Out(h, Threw, FALSE)
    ELSE Out(FileWrite(h, h.DefaultCollections, FALSE), Void, FALSE)

\* a healthCheck without its try/catch: a refused step raises
FileHealthCheckUnguarded(h, fail) ==
    IF FileReadThrows(h, IF fail = "read1" THEN "read" ELSE "none")
    THEN Out(h, Threw, FALSE)
    ELSE IF fail = "write1" THEN Out(h, Threw, FALSE)
    ELSE
      LET h1 == FileWrite(h, h.DefaultCollections, TRUE)
      IN IF fail = "read2" \/ fail = "write2" THEN Out(h1, Threw, FALSE)
         ELSE Out(FileWrite(h1, h1.file.doc, FALSE), Bool(TRUE), FALSE)

\* FileStorage.healthCheck; fail names the step that is refused
FileHealthCheck(h, fail) ==
    IF FileReadThrows(h, IF fail = "read1" THEN "read" ELSE "none")
    THEN Out(h, Bool(FALSE), FALSE)
    ELSE IF fail = "write1" THEN Out(h, Bool(FALSE), FALSE)
    ELSE
      LET h1 == FileWrite(h, h.DefaultCollections, TRUE)
      IN IF fail = "read2" \/ fail = "write2" THEN Out(h1, Bool(FALSE), FALSE)
         ELSE Out(FileWrite(h1, h1.file.doc, FALSE), Bool(TRUE), FALSE)

-----------------------------------------------------------------------------
(* MemoryStorage *)

\* MemoryStorage.init
MemInit(h) == Out([h EXCEPT !.data = ShallowCopyDefaults(h)], Void, FALSE)

\* MemoryStorage.getCollection
MemGetCollection(h, collection) ==
    IF collection \in DOMAIN h.data THEN List(MemRecs(h, collection)) ELSE List(<<>>)

\* MemoryStorage.getRecord
MemGetRecord(h, collection, id) ==
    LET records == MemGetCollection(h, collection).val
    IN IF FindIndex(records, id) = 0 THEN Null
       ELSE Rec(records[FindIndex(records, id)])

\* a createRecord that puts the new record in front of the others
MemCreateRecordInFront(h, collection, record, gen, t1, t2) ==
    LET h1 == IF collection \in DOMAIN h.data THEN h
              ELSE [h EXCEPT !.data = Put(@, collection, Own(<<>>))]
        newRecord == NewRecord(record, gen, t1, t2)
    IN Out(MemMutate(h1, collection, <<newRecord>> \o MemRecs(h1, collection)),
           Rec(newRecord), Generates(record))

\* MemoryStorage.createRecord
MemCreateRecord(h, collection, record, gen, t1, t2) ==
    LET h1 == IF collection \in DOMAIN h.data THEN h
              ELSE [h EXCEPT !.data = Put(@, collection, Own(<<>>))]
        newRecord == NewRecord(record, gen, t1, t2)
    IN Out(MemMutate(h1, collection, Append(MemRecs(h1, collection), newRecord)),
           Rec(newRecord), Generates(record))

\* MemoryStorage.updateRecord
MemUpdateRecord(h, collection, id, updates, now) ==
    IF collection \notin DOMAIN h.data THEN Out(h, Null, FALSE)
    ELSE
      LET records == MemRecs(h, collection)
          recordIndex == FindIndex(records, id)
      IN IF recordIndex = 0 THEN Out(h, Null, FALSE)
         ELSE
           LET upd == UpdatedRecord(records[recordIndex], updates, id, now)
           IN Out(MemMutate(h, collection, [records EXCEPT ![recordIndex] = upd]),
                  Rec(upd), FALSE)

\* MemoryStorage.deleteRecord
MemDeleteRecord(h, collection, id) ==
    IF collection \notin DOMAIN h.data THEN Out(h, Bool(FALSE), FALSE)
    ELSE
      LET records == MemRecs(h, collection)
          kept == FilterOut(records, id)
      IN Out([h EXCEPT !.data = Put(@, collection, Own(kept))],
             Bool(Len(kept) < Len(records)), FALSE)

\* a getStats that counts the seeded collections only, not the ones that
\* createRecord added
MemGetStatsSeededOnly(h) ==
    [tag |-> "stats", storageType |-> "memory",
     totalCollections |-> Cardinality(DOMAIN h.data),
     totalRecords |-> SumLen([c \in DOMAIN h.data |-> MemRecs(h, c)],
                             (DOMAIN h.data) \cap (DOMAIN Seed)),
     collections |-> [c \in DOMAIN h.data |-> Len(MemRecs(h, c))]]

\* MemoryStorage.getStats: totalRecords, totalCollections and the per-key counts
MemGetStats(h) ==
    [tag |-> "stats", storageType |-> "memory",
     totalCollections |-> Cardinality(DOMAIN h.data),
     totalRecords |-> SumLen([c \in DOMAIN h.data |-> MemRecs(h, c)], DOMAIN h.data),
     collections |-> [c \in DOMAIN h.data |-> Len(MemRecs(h, c))]]

\* MemoryStorage.clear
MemClear(h) == Out([h EXCEPT !.data = ShallowCopyDefaults(h)], Void, FALSE)

\* MemoryStorage.healthCheck, after its deleteRecord: drop the test collection
MemHealthDeleted(removed) ==
    IF ~removed.ret.val THEN Out(removed.h, Bool(FALSE), TRUE)
    ELSE Out([removed.h EXCEPT !.data = Remove(@, "_healthTest")], Bool(TRUE), TRUE)

\* MemoryStorage.healthCheck, after its updateRecord
MemHealthUpdated(updated, id) ==
    IF updated.ret.tag = "null" THEN Out(updated.h, Bool(FALSE), TRUE)
    ELSE IF updated.ret.val.status # "updated" THEN Out(updated.h, Bool(FALSE), TRUE)
    ELSE MemHealthDeleted(MemDeleteRecord(updated.h, "_healthTest", id))

\* MemoryStorage.healthCheck, after its getRecord
MemHealthRead(h, read, id, now) ==
    IF read.tag = "null" THEN Out(h, Bool(FALSE), TRUE)
    ELSE IF "name" \notin DOMAIN read.val THEN Out(h, Bool(FALSE), TRUE)
    ELSE IF read.val.name # "health-check" THEN Out(h, Bool(FALSE), TRUE)
    ELSE MemHealthUpdated(
            MemUpdateRecord(h, "_healthTest", id, [status |-> "updated"], now), id)

\* MemoryStorage.healthCheck, after its createRecord
MemHealthCreated(created, now) ==
    IF ~Truthy(created.ret.val.id) THEN Out(created.h, Bool(FALSE), TRUE)
    ELSE MemHealthRead(created.h,
                       MemGetRecord(created.h, "_healthTest", created.ret.val.id),
                       created.ret.val.id, now)

\* MemoryStorage.healthCheck: create, read, update, delete in _healthTest, then drop it
MemHealthCheck(h, gen, now) ==
    MemHealthCreated(
        MemCreateRecord(h, "_healthTest", [name |-> "health-check", timestamp |-> now],
                        gen, now, now),
        now)

-----------------------------------------------------------------------------
(* StorageFactory and StorageManager, src/utils/storageFactory.js *)

\* Object.values(StorageTypes)
StorageTypes == {"file", "memory", "database"}

\* a selector that lets the STORAGE_TYPE setting win over the caller override
getStorageTypeEnvFirst(typeOverride) ==
    IF env.STORAGE_TYPE # "" /\ env.STORAGE_TYPE \in StorageTypes THEN env.STORAGE_TYPE
    ELSE IF typeOverride # "" /\ typeOverride \in StorageTypes THEN typeOverride
    ELSE IF env.NODE_ENV \in {"test", "testing"} THEN "memory"
    ELSE IF env.NODE_ENV \in {"development", "dev"}
         THEN (IF env.DEV_STORAGE # "" THEN env.DEV_STORAGE ELSE "file")
    ELSE "file"

\* StorageFactory.getStorageType; "" stands for an unset value
getStorageType(typeOverride) ==
    IF typeOverride # "" /\ typeOverride \in StorageTypes THEN typeOverride
    ELSE IF env.STORAGE_TYPE # "" /\ env.STORAGE_TYPE \in StorageTypes
         THEN env.STORAGE_TYPE
    ELSE IF env.NODE_ENV \in {"test", "testing"} THEN "memory"
    ELSE IF env.NODE_ENV \in {"development", "dev"}
         THEN (IF env.DEV_STORAGE # "" THEN env.DEV_STORAGE ELSE "file")
    ELSE "file"

\* the NODE_ENV values of getStorageType's production case
ProductionNodeEnvs == {"production", "prod"}

\* the adapter class createStorage's switch picks for a resolved type
AdapterFor(storageType) == IF storageType = "memory" THEN "memory" ELSE "file"

\* the rest of a file attempt once createStorage has run init()
FileAttempt(made, fail) ==
    IF made.ret.tag = "threw" \/ fail = "forced"
    THEN [h |-> made.h, ok |-> FALSE, adapter |-> "file", gen |-> FALSE]
    ELSE [h |-> FileHealthCheck(made.h, fail).h,
          ok |-> FileHealthCheck(made.h, fail).ret = Bool(TRUE),
          adapter |-> "file", gen |-> FALSE]

\* the result of a memory attempt from the result of its healthCheck
MemAttempt(hc) == [h |-> hc.h, ok |-> hc.ret.val, adapter |-> "memory", gen |-> hc.gen]

\* one failover attempt: createStorage (construct + init) and healthCheck.
\* fail names the file system step that is refused during this attempt;
\* "forced" is a healthCheck made to answer false by a test double, the only
\* way a MemoryStorage attempt fails.
Attempt(h, type, gen, now, fail) ==
    IF AdapterFor(getStorageType(type)) = "memory"
    THEN IF fail = "forced"
         THEN [h |-> MemInit([h EXCEPT !.data = EmptyMap]).h, ok |-> FALSE,
               adapter |-> "memory", gen |-> FALSE]
         ELSE MemAttempt(MemHealthCheck(MemInit([h EXCEPT !.data = EmptyMap]).h, gen, now))
    ELSE FileAttempt(FileInit(h, fail), fail)

\* fallback types tried memory first
FallbackTypesMemoryFirst(primaryType) ==
    SelectSeq(<<"memory", "file">>, LAMBDA t : t # primaryType)

\* the fallback types still to try: file, then memory, skipping the primary type
FallbackTypes(primaryType) ==
    SelectSeq(<<"file", "memory">>, LAMBDA t : t # primaryType)

\* the loop over the fallback types, entered with the previous attempt's result
RECURSIVE TryFallbacks(_, _, _, _, _, _)
TryFallbacks(prev, types, gen, now, fails, used) ==
    IF prev.ok THEN [prev EXCEPT !.gen = used \/ prev.gen]
    ELSE IF types = <<>>
         THEN [h |-> prev.h, ok |-> FALSE, adapter |-> "none", gen |-> used \/ prev.gen]
    ELSE TryFallbacks(Attempt(prev.h, Head(types), gen, now, Head(fails)),
                      Tail(types), gen, now, Tail(fails), used \/ prev.gen)

\* a failover that answers with the last adapter tried instead of throwing
createStorageWithFailoverNoThrow(h, type, gen, now, fails) ==
    [TryFallbacks(Attempt(h, getStorageType(type), gen, now, Head(fails)),
                  FallbackTypes(getStorageType(type)), gen, now, Tail(fails), FALSE)
       EXCEPT !.ok = TRUE, !.adapter = "memory"]

\* StorageFactory.createStorageWithFailover; ok = FALSE when it throws
createStorageWithFailover(h, type, gen, now, fails) ==
    TryFallbacks(Attempt(h, getStorageType(type), gen, now, Head(fails)),
                 FallbackTypes(getStorageType(type)), gen, now, Tail(fails), FALSE)

\* the adapter classes the fallback loop constructs, in order
RECURSIVE FallbacksConstructed(_, _, _, _, _)
FallbacksConstructed(prev, types, gen, now, fails) ==
    IF prev.ok \/ types = <<>> THEN <<>>
    ELSE <<Attempt(prev.h, Head(types), gen, now, Head(fails)).adapter>>
         \o FallbacksConstructed(Attempt(prev.h, Head(types), gen, now, Head(fails)),
                                 Tail(types), gen, now, Tail(fails))

\* the adapter classes one createStorageWithFailover call constructs, in order
Constructed(h, type, gen, now, fails) ==
    <<Attempt(h, getStorageType(type), gen, now, Head(fails)).adapter>>
    \o FallbacksConstructed(Attempt(h, getStorageType(type), gen, now, Head(fails)),
                            FallbackTypes(getStorageType(type)), gen, now, Tail(fails))

-----------------------------------------------------------------------------
(* The process: state, observations and calls *)

Heap == [file |-> file, DefaultCollections |-> DefaultCollections, data |-> data]

SetHeap(h) ==
    /\ file' = h.file
    /\ DefaultCollections' = h.DefaultCollections
    /\ data' = h.data

\* adapter calls through the StorageInterface, k the adapter class
getCollection(k, h, collection) ==
    IF k = "file" THEN FileGetCollection(h, collection, "none")
    ELSE MemGetCollection(h, collection)

getRecord(k, h, collection, id) ==
    IF k = "file" THEN FileGetRecord(h, collection, id, "none")
    ELSE MemGetRecord(h, collection, id)

getStats(k, h) == IF k = "file" THEN FileGetStats(h, "none") ELSE MemGetStats(h)

init(k, h, fail) == IF k = "file" THEN FileInit(h, fail) ELSE MemInit(h)

createRecord(k, h, collection, record, gen, t1, t2, fail) ==
    IF k = "file" THEN FileCreateRecord(h, collection, record, gen, t1, t2, fail)
    ELSE MemCreateRecord(h, collection, record, gen, t1, t2)

updateRecord(k, h, collection, id, updates, now, fail) ==
    IF k = "file" THEN FileUpdateRecord(h, collection, id, updates, now, fail)
    ELSE MemUpdateRecord(h, collection, id, updates, now)

deleteRecord(k, h, collection, id, fail) ==
    IF k = "file" THEN FileDeleteRecord(h, collection, id, fail)
    ELSE MemDeleteRecord(h, collection, id)

clear(k, h, fail) == IF k = "file" THEN FileClear(h, fail) ELSE MemClear(h)

healthCheck(k, h, gen, now, fail) ==
    IF k = "file" THEN FileHealthCheck(h, fail) ELSE MemHealthCheck(h, gen, now)

\* the collections of the Document of adapter k (none when the file cannot be read)
Collections(k, h) ==
    IF k = "file"
    THEN (IF h.file.kind \in {"garbage", "scalar"} THEN {} ELSE DOMAIN FileRead(h))
    ELSE DOMAIN h.data

\* the Document of adapter k as its read calls show it
Document(k, h) == [c \in Collections(k, h) |-> getCollection(k, h, c).val]

\* file system refusals a call can meet; the memory adapter does no I/O
Fails(k) == IF k = "file" THEN {"none", "read", "write"} ELSE {"none"}
InitFails(k) == IF k = "file" THEN {"none", "init"} ELSE {"none"}
HealthFails(k) ==
    IF k = "file" THEN {"none", "read1", "write1", "read2", "write2"} ELSE {"none"}
AttemptFails == {"none", "init", "read2"}

\* ids a client can send: falsy, its own string, or an id it has been given
ClientIds == {0, ClientId} \cup 1..idCounter

\* the adapter StorageManager holds
K == manager.storage

\* ids a client can address: those of the records it can see, those it has
\* deleted, and one of its own
KnownIds ==
    {ClientId}
      \cup {p[2] : p \in deleted}
      \cup UNION {{Document(K, Heap)[c][i].id : i \in 1..Len(Document(K, Heap)[c])} :
                    c \in Collections(K, Heap)}

Call(op, k, name, id, arg, ret) ==
    [op |-> op, kind |-> k, name |-> name, id |-> id, arg |-> arg, ret |-> ret]

-----------------------------------------------------------------------------
(* Initial states *)

OldRecord == [id |-> OldId, name |-> "a", createdAt |-> 0, updatedAt |-> 0]

InitialFiles ==
    {Absent, Garbage, DocFile(Put(Seed, "users", <<OldRecord>>), FALSE)}

Env(nodeEnv, storageType, devStorage) ==
    [NODE_ENV |-> nodeEnv, STORAGE_TYPE |-> storageType, DEV_STORAGE |-> devStorage]

Envs == {Env("production", "", "")}

Overrides == {"", "memory"}

Init ==
    /\ env \in Envs
    /\ file \in InitialFiles
    /\ DefaultCollections = Seed
    /\ data = EmptyMap
    /\ manager = [storage |-> "none", initialized |-> FALSE, instance |-> 0]
    /\ clock = 0
    /\ idCounter = 0
    /\ deleted = {}
    /\ ops = 0
    /\ peer = [file |-> Absent, DefaultCollections |-> Seed, data |-> EmptyMap]
    /\ calls = EmptyMap
    /\ last = [op |-> "none", kind |-> "none", name |-> "", id |-> 0, arg |-> EmptyMap,
               ret |-> Void]

-----------------------------------------------------------------------------
(* Actions *)

Tick ==
    /\ clock < MaxClock
    /\ clock' = clock + 1
    /\ last' = Call("tick", "none", "", 0, EmptyMap, Void)
    /\ UNCHANGED <<calls, env, file, DefaultCollections, data, manager, idCounter, deleted,
                   ops, peer>>

\* StorageManager.init(options)
ManagerInit ==
    IF manager.initialized
    THEN /\ last' = Call("managerInit", K, "", 0, EmptyMap, [tag |-> "storage", val |-> K])
         /\ UNCHANGED <<calls, env, file, DefaultCollections, data, manager, clock, idCounter,
                        deleted, ops, peer>>
    ELSE \E type \in Overrides, fails \in [1..3 -> AttemptFails] :
         \E made \in {createStorageWithFailover(Heap, type, idCounter + 1, clock, fails)} :
           /\ SetHeap(made.h)
           /\ idCounter' = IF made.gen THEN idCounter + 1 ELSE idCounter
           /\ manager' = IF made.ok
                         THEN [storage |-> made.adapter, initialized |-> TRUE,
                               instance |-> 1]
                         ELSE manager
           /\ last' = Call("managerInit", made.adapter, "", 0, EmptyMap,
                           IF made.ok THEN [tag |-> "storage", val |-> made.adapter]
                           ELSE Threw)
           /\ deleted' = {}
           /\ UNCHANGED <<calls, env, clock, ops, peer>>

\* storage.init()
StorageInit ==
    /\ manager.initialized
    /\ ops < MaxOps
    /\ ops' = ops + 1
    /\ \E fail \in InitFails(K) :
       \E out \in {init(K, Heap, fail)} :
         /\ SetHeap(out.h)
         /\ last' = Call("init", K, "", 0, EmptyMap, out.ret)
    /\ UNCHANGED <<calls, env, manager, clock, idCounter, deleted, peer>>

\* storage.createRecord(collection, record); d is how far the clock moves
\* between the two new Date() readings
CreateRecord ==
    /\ manager.initialized
    /\ ops < MaxOps
    /\ ops' = ops + 1
    /\ \E collection \in Names, record \in Payloads(ClientIds), d \in {0, 1},
          fail \in Fails(K) :
       \E out \in {createRecord(K, Heap, collection, record, idCounter + 1,
                                clock, clock + d, fail)} :
         /\ clock + d <= MaxClock
         /\ SetHeap(out.h)
         /\ clock' = clock + d
         /\ idCounter' = IF out.gen THEN idCounter + 1 ELSE idCounter
         /\ last' = Call("createRecord", K, collection, 0, record, out.ret)
         /\ deleted' = {}
    /\ UNCHANGED <<calls, env, manager, peer>>

\* storage.updateRecord(collection, id, updates)
UpdateRecord ==
    /\ manager.initialized
    /\ ops < MaxOps
    /\ ops' = ops + 1
    /\ \E collection \in Names, id \in KnownIds, updates \in Patches, fail \in Fails(K) :
       \E out \in {updateRecord(K, Heap, collection, id, updates, clock, fail)} :
         /\ SetHeap(out.h)
         /\ last' = Call("updateRecord", K, collection, id, updates, out.ret)
    /\ UNCHANGED <<calls, env, manager, clock, idCounter, deleted, peer>>

\* storage.deleteRecord(collection, id)
DeleteRecord ==
    /\ manager.initialized
    /\ ops < MaxOps
    /\ ops' = ops + 1
    /\ \E collection \in Names, id \in KnownIds, fail \in Fails(K) :
       \E out \in {deleteRecord(K, Heap, collection, id, fail)} :
         /\ SetHeap(out.h)
         /\ last' = Call("deleteRecord", K, collection, id, EmptyMap, out.ret)
         /\ deleted' = IF out.ret.tag = "bool" /\ out.ret.val
                       THEN deleted \cup {<<collection, id>>} ELSE deleted
    /\ UNCHANGED <<calls, env, manager, clock, idCounter, peer>>

\* storage.getRecord(collection, id)
GetRecord ==
    /\ manager.initialized
    /\ \E collection \in Names, id \in KnownIds, fail \in Fails(K) \ {"write"} :
         last' = Call("getRecord", K, collection, id, EmptyMap,
                      IF K = "file" THEN FileGetRecord(Heap, collection, id, fail)
                      ELSE MemGetRecord(Heap, collection, id))
    /\ UNCHANGED <<calls, env, file, DefaultCollections, data, manager, clock, idCounter, deleted,
                   ops, peer>>

\* storage.getCollection(collection)
GetCollection ==
    /\ manager.initialized
    /\ \E collection \in Names, fail \in Fails(K) \ {"write"} :
         last' = Call("getCollection", K, collection, 0, EmptyMap,
                      IF K = "file" THEN FileGetCollection(Heap, collection, fail)
                      ELSE MemGetCollection(Heap, collection))
    /\ UNCHANGED <<calls, env, file, DefaultCollections, data, manager, clock, idCounter, deleted,
                   ops, peer>>

\* storage.getStats()
GetStats ==
    /\ manager.initialized
    /\ \E fail \in Fails(K) \ {"write"} :
         last' = Call("getStats", K, "", 0, EmptyMap,
                      IF K = "file" THEN FileGetStats(Heap, fail) ELSE MemGetStats(Heap))
    /\ UNCHANGED <<calls, env, file, DefaultCollections, data, manager, clock, idCounter, deleted,
                   ops, peer>>

\* storage.clear()
Clear ==
    /\ manager.initialized
    /\ ops < MaxOps
    /\ ops' = ops + 1
    /\ \E fail \in Fails(K) \ {"read"} :
       \E out \in {clear(K, Heap, fail)} :
         /\ SetHeap(out.h)
         /\ last' = Call("clear", K, "", 0, EmptyMap, out.ret)
    /\ UNCHANGED <<calls, env, manager, clock, idCounter, deleted, peer>>

\* storage.healthCheck()
HealthCheck ==
    /\ manager.initialized
    /\ ops < MaxOps
    /\ ops' = ops + 1
    /\ \E fail \in HealthFails(K) :
       \E out \in {healthCheck(K, Heap, idCounter + 1, clock, fail)} :
         /\ SetHeap(out.h)
         /\ idCounter' = IF out.gen THEN idCounter + 1 ELSE idCounter
         /\ last' = Call("healthCheck", K, "", 0, [fail |-> fail], out.ret)
         /\ deleted' = IF K = "memory" THEN {} ELSE deleted
    /\ UNCHANGED <<calls, env, manager, clock, peer>>

Next ==
    \/ Tick
    \/ ManagerInit
    \/ StorageInit
    \/ CreateRecord
    \/ UpdateRecord
    \/ DeleteRecord
    \/ GetRecord
    \/ GetCollection
    \/ GetStats
    \/ Clear
    \/ HealthCheck

Spec == Init /\ [][Next]_vars

-----------------------------------------------------------------------------
(* Two processes in lockstep: a MemoryStorage in this process (Heap) and a
   FileStorage in a second one (peer), both freshly constructed, given the
   same calls with the same payloads, generated ids and clock readings *)

ParityCall(op, name, id, arg, ret, peerRet) ==
    [op |-> op, kind |-> "both", name |-> name, id |-> id, arg |-> arg, ret |-> ret,
     peerRet |-> peerRet]

\* ids a client can address on either backend
ParityIds ==
    {ClientId}
      \cup UNION {{Document("memory", Heap)[c][i].id :
                     i \in 1..Len(Document("memory", Heap)[c])} :
                    c \in Collections("memory", Heap)}
      \cup UNION {{Document("file", peer)[c][i].id :
                     i \in 1..Len(Document("file", peer)[c])} :
                    c \in Collections("file", peer)}

\* new MemoryStorage() in one process, new FileStorage() on a path with no file
\* in the other
InitParity ==
    /\ env \in Envs
    /\ file = Absent
    /\ DefaultCollections = Seed
    /\ data = EmptyMap
    /\ manager = [storage |-> "memory", initialized |-> TRUE, instance |-> 1]
    /\ clock = 0
    /\ idCounter = 0
    /\ deleted = {}
    /\ ops = 0
    /\ peer = [file |-> Absent, DefaultCollections |-> Seed, data |-> EmptyMap]
    /\ calls = EmptyMap
    /\ last = [op |-> "none", kind |-> "none", name |-> "", id |-> 0, arg |-> EmptyMap,
               ret |-> Void]

BothTick ==
    /\ clock < MaxClock
    /\ clock' = clock + 1
    /\ last' = ParityCall("tick", "", 0, EmptyMap, Void, Void)
    /\ UNCHANGED <<calls, env, file, DefaultCollections, data, manager, idCounter, deleted,
                   ops, peer>>

BothInit ==
    /\ ops < MaxOps
    /\ ops' = ops + 1
    /\ \E m \in {MemInit(Heap)}, f \in {FileInit(peer, "none")} :
         /\ SetHeap(m.h)
         /\ peer' = f.h
         /\ last' = ParityCall("init", "", 0, EmptyMap, m.ret, f.ret)
    /\ UNCHANGED <<calls, env, manager, clock, idCounter, deleted>>

BothCreateRecord ==
    /\ ops < MaxOps
    /\ ops' = ops + 1
    /\ \E collection \in Names, record \in Payloads(ClientIds), d \in {0, 1} :
       \E m \in {MemCreateRecord(Heap, collection, record, idCounter + 1, clock, clock + d)},
          f \in {FileCreateRecord(peer, collection, record, idCounter + 1, clock, clock + d,
                                  "none")} :
         /\ clock + d <= MaxClock
         /\ SetHeap(m.h)
         /\ peer' = f.h
         /\ clock' = clock + d
         /\ idCounter' = IF m.gen \/ f.gen THEN idCounter + 1 ELSE idCounter
         /\ last' = ParityCall("createRecord", collection, 0, record, m.ret, f.ret)
    /\ UNCHANGED <<calls, env, manager, deleted>>

BothUpdateRecord ==
    /\ ops < MaxOps
    /\ ops' = ops + 1
    /\ \E collection \in Names, id \in ParityIds, updates \in Patches :
       \E m \in {MemUpdateRecord(Heap, collection, id, updates, clock)},
          f \in {FileUpdateRecord(peer, collection, id, updates, clock, "none")} :
         /\ SetHeap(m.h)
         /\ peer' = f.h
         /\ last' = ParityCall("updateRecord", collection, id, updates, m.ret, f.ret)
    /\ UNCHANGED <<calls, env, manager, clock, idCounter, deleted>>

BothDeleteRecord ==
    /\ ops < MaxOps
    /\ ops' = ops + 1
    /\ \E collection \in Names, id \in ParityIds :
       \E m \in {MemDeleteRecord(Heap, collection, id)},
          f \in {FileDeleteRecord(peer, collection, id, "none")} :
         /\ SetHeap(m.h)
         /\ peer' = f.h
         /\ last' = ParityCall("deleteRecord", collection, id, EmptyMap, m.ret, f.ret)
    /\ UNCHANGED <<calls, env, manager, clock, idCounter, deleted>>

BothClear ==
    /\ ops < MaxOps
    /\ ops' = ops + 1
    /\ \E m \in {MemClear(Heap)}, f \in {FileClear(peer, "none")} :
         /\ SetHeap(m.h)
         /\ peer' = f.h
         /\ last' = ParityCall("clear", "", 0, EmptyMap, m.ret, f.ret)
    /\ UNCHANGED <<calls, env, manager, clock, idCounter, deleted>>

BothHealthCheck ==
    /\ ops < MaxOps
    /\ ops' = ops + 1
    /\ \E m \in {MemHealthCheck(Heap, idCounter + 1, clock)},
          f \in {FileHealthCheck(peer, "none")} :
         /\ SetHeap(m.h)
         /\ peer' = f.h
         /\ idCounter' = IF m.gen THEN idCounter + 1 ELSE idCounter
         /\ last' = ParityCall("healthCheck", "", 0, EmptyMap, m.ret, f.ret)
    /\ UNCHANGED <<calls, env, manager, clock, deleted>>

BothGetRecord ==
    /\ \E collection \in Names, id \in ParityIds :
         last' = ParityCall("getRecord", collection, id, EmptyMap,
                            MemGetRecord(Heap, collection, id),
                            FileGetRecord(peer, collection, id, "none"))
    /\ UNCHANGED <<calls, env, file, DefaultCollections, data, manager, clock, idCounter, deleted,
                   ops, peer>>

BothGetCollection ==
    /\ \E collection \in Names :
         last' = ParityCall("getCollection", collection, 0, EmptyMap,
                            MemGetCollection(Heap, collection),
                            FileGetCollection(peer, collection, "none"))
    /\ UNCHANGED <<calls, env, file, DefaultCollections, data, manager, clock, idCounter, deleted,
                   ops, peer>>

NextParity ==
    \/ BothTick
    \/ BothInit
    \/ BothCreateRecord
    \/ BothUpdateRecord
    \/ BothDeleteRecord
    \/ BothClear
    \/ BothHealthCheck
    \/ BothGetRecord
    \/ BothGetCollection

SpecParity == InitParity /\ [][NextParity]_vars

-----------------------------------------------------------------------------
(* StorageManager under concurrent callers: init() is an async function that
   awaits createStorageWithFailover, so other callers run between its test of
   this.initialized and its assignments *)

MaxCallers == 2

Callers == 1..MaxCallers

ManagerEnvs ==
    {Env("production", "", ""), Env("test", "", ""), Env("production", "database", "")}

\* outcomes of one failover attempt, a forced health check failure included
ManagerFails == AttemptFails \cup {"forced"}

Idle == [phase |-> "idle"]
Awaiting(type) == [phase |-> "awaiting", type |-> type]
Returned(ret) == [phase |-> "returned", ret |-> ret]

\* a reference to the adapter instance StorageManager holds; null when none
StorageRef(m) ==
    IF m.instance = 0 THEN Null
    ELSE [tag |-> "storage", val |-> m.storage, instance |-> m.instance]

\* a getStorage without the initialized guard
getStorageUnguarded(m) == StorageRef(m)

\* StorageManager.getStorage
getStorage(m) == IF ~m.initialized THEN Threw ELSE StorageRef(m)

\* new StorageManager() at module load, nothing called yet
InitManager ==
    /\ env \in ManagerEnvs
    /\ file \in InitialFiles
    /\ DefaultCollections = Seed
    /\ data = EmptyMap
    /\ manager = [storage |-> "none", initialized |-> FALSE, instance |-> 0]
    /\ clock = 0
    /\ idCounter = 0
    /\ deleted = {}
    /\ ops = 0
    /\ peer = [file |-> Absent, DefaultCollections |-> Seed, data |-> EmptyMap]
    /\ calls = [c \in Callers |-> Idle]
    /\ last = [op |-> "none", kind |-> "none", name |-> "", id |-> 0, arg |-> EmptyMap,
               ret |-> Void]

\* StorageManager.init(options) up to its await: return the held storage when
\* initialized, else start createStorageWithFailover
InitBegin(c) ==
    /\ calls[c].phase = "idle"
    /\ IF manager.initialized
       THEN /\ calls' = [calls EXCEPT ![c] = Returned(StorageRef(manager))]
            /\ last' = Call("managerInit", K, "", c, EmptyMap, StorageRef(manager))
       ELSE \E type \in Overrides :
            /\ calls' = [calls EXCEPT ![c] = Awaiting(type)]
            /\ last' = Call("managerInitBegin", "none", "", c, [type |-> type], Void)
    /\ UNCHANGED <<env, file, DefaultCollections, data, manager, clock, idCounter, deleted,
                   ops, peer>>

\* StorageManager.init(options) after its await: createStorageWithFailover has
\* settled; on success assign this.storage and this.initialized and return
InitEnd(c) ==
    /\ calls[c].phase = "awaiting"
    /\ ops < MaxOps
    /\ ops' = ops + 1
    /\ \E fails \in [1..3 -> ManagerFails] :
       \E made \in {createStorageWithFailover(Heap, calls[c].type, idCounter + 1, clock,
                                              fails)} :
       \E m \in {IF made.ok
                  THEN [storage |-> made.adapter, initialized |-> TRUE, instance |-> c]
                  ELSE manager} :
         /\ SetHeap(made.h)
         /\ idCounter' = IF made.gen THEN idCounter + 1 ELSE idCounter
         /\ manager' = m
         /\ calls' = [calls EXCEPT
                        ![c] = Returned(IF made.ok THEN StorageRef(m) ELSE Threw)]
         /\ last' = Call("managerInit", made.adapter, "", c,
                         [type |-> calls[c].type, fails |-> fails],
                         IF made.ok THEN StorageRef(m) ELSE Threw)
    /\ UNCHANGED <<env, clock, deleted, peer>>

\* StorageManager.getStorage()
GetStorage ==
    /\ last' = Call("getStorage", K, "", 0, EmptyMap, getStorage(manager))
    /\ UNCHANGED <<calls, env, file, DefaultCollections, data, manager, clock, idCounter,
                   deleted, ops, peer>>

\* StorageManager.reset(), for tests; the callers drop the references they hold
Reset ==
    /\ manager' = [storage |-> "none", initialized |-> FALSE, instance |-> 0]
    /\ calls' = [c \in Callers |-> IF calls[c].phase = "returned" THEN Idle ELSE calls[c]]
    /\ last' = Call("reset", "none", "", 0, EmptyMap, Void)
    /\ UNCHANGED <<env, file, DefaultCollections, data, clock, idCounter, deleted, ops, peer>>

\* StorageFactory.getConfig(): the selector run without an override
getConfig ==
    [tag |-> "config",
     detectedType |-> getStorageType(""),
     nodeEnv |-> IF env.NODE_ENV = "" THEN "development" ELSE env.NODE_ENV,
     storageTypeEnv |-> env.STORAGE_TYPE,
     devStorageEnv |-> env.DEV_STORAGE,
     availableTypes |-> StorageTypes]

\* StorageFactory.getConfig(), as the root route and the start-up log call it
GetConfig ==
    /\ last' = Call("getConfig", K, "", 0, EmptyMap, getConfig)
    /\ UNCHANGED <<calls, env, file, DefaultCollections, data, manager, clock, idCounter,
                   deleted, ops, peer>>

NextManager ==
    \/ \E c \in Callers : InitBegin(c)
    \/ \E c \in Callers : InitEnd(c)
    \/ GetStorage
    \/ GetConfig
    \/ Reset

SpecManager == InitManager /\ [][NextManager]_vars

-----------------------------------------------------------------------------
(* StorageFactory.getStorageType over the settings a deployment can have *)

SelectorNodeEnvs ==
    {"", "test", "testing", "development", "dev", "production", "prod", "staging"}

\* "bogus" stands for any string that is not a storage type
SelectorTypes == {"", "file", "memory", "database", "bogus"}

SelectorEnvs ==
    {Env(n, t, d) : n \in SelectorNodeEnvs, t \in SelectorTypes,
                    d \in {"", "memory", "bogus"}}

InitSelector ==
    /\ env \in SelectorEnvs
    /\ file = Absent
    /\ DefaultCollections = Seed
    /\ data = EmptyMap
    /\ manager = [storage |-> "none", initialized |-> FALSE, instance |-> 0]
    /\ clock = 0
    /\ idCounter = 0
    /\ deleted = {}
    /\ ops = 0
    /\ peer = [file |-> Absent, DefaultCollections |-> Seed, data |-> EmptyMap]
    /\ calls = EmptyMap
    /\ last = [op |-> "none", kind |-> "none", name |-> "", id |-> 0, arg |-> EmptyMap,
               ret |-> Void]

\* StorageFactory.getStorageType(typeOverride)
GetStorageType ==
    /\ \E typeOverride \in SelectorTypes :
         last' = Call("getStorageType", "none", "", 0, [type |-> typeOverride],
                      [tag |-> "type", val |-> getStorageType(typeOverride)])
    /\ UNCHANGED <<calls, env, file, DefaultCollections, data, manager, clock, idCounter,
                   deleted, ops, peer>>

\* StorageFactory.createStorage: resolve the type again, construct the adapter
\* the switch picks and run its init
createStorage(h, type, fail) ==
    init(AdapterFor(getStorageType(type)), [h EXCEPT !.data = EmptyMap], fail)

\* StorageFactory.createStorage({ type }) followed by getStats() on the adapter
\* it returned
CreateStorage ==
    /\ \E typeOverride \in SelectorTypes :
       \E k \in {AdapterFor(getStorageType(getStorageType(typeOverride)))} :
       \E out \in {createStorage(Heap, getStorageType(typeOverride), "none")} :
         /\ SetHeap(out.h)
         /\ last' = Call("createStorage", k, "", 0, [type |-> typeOverride],
                         [tag |-> "type", val |-> getStorageType(typeOverride),
                          storageType |-> getStats(k, out.h).storageType])
    /\ UNCHANGED <<calls, env, manager, clock, idCounter, deleted, ops, peer>>

NextSelector ==
    \/ GetStorageType
    \/ CreateStorage

SpecSelector == InitSelector /\ [][NextSelector]_vars

-----------------------------------------------------------------------------
(* One FileStorage instance under concurrent callers.  A mutating method
   awaits this.read(), computes the new document synchronously, then awaits
   this.write(data); fs.writeFile opens the file truncating it and then writes
   the text, so the file is incomplete while a write is in progress.  When two
   writes overlap, the one that ends last is taken to leave its own document *)

ConcurrentFile == DocFile(Put(Seed, "users", <<OldRecord>>), FALSE)

ConcurrentIds == {OldId} \cup 1..idCounter

\* a call between its read and the end of its write: its arguments, the id
\* and clock reading it drew, and out, the document it writes and its result
InFlight(phase, op, name, id, arg, gen, now, out) ==
    [phase |-> phase, op |-> op, name |-> name, id |-> id, arg |-> arg, gen |-> gen,
     now |-> now, out |-> out]

\* a call that has returned or thrown
Done(call, ret) ==
    [phase |-> "returned", op |-> call.op, name |-> call.name, id |-> call.id,
     arg |-> call.arg, gen |-> call.gen, now |-> call.now, ret |-> ret]

\* the method a call runs, run from heap h with nothing else in flight
Apply(call, h) ==
    IF call.op = "createRecord"
    THEN FileCreateRecord(h, call.name, call.arg, call.gen, call.now, call.now, "none")
    ELSE IF call.op = "updateRecord"
    THEN FileUpdateRecord(h, call.name, call.id, call.arg, call.now, "none")
    ELSE FileDeleteRecord(h, call.name, call.id, "none")

\* whether the method reaches this.write(data)
Writes(out) == out.ret.tag = "record" \/ out.ret = Bool(TRUE)

InitConcurrent ==
    /\ env \in Envs
    /\ file = ConcurrentFile
    /\ DefaultCollections = Seed
    /\ data = EmptyMap
    /\ manager = [storage |-> "file", initialized |-> TRUE, instance |-> 1]
    /\ clock = 0
    /\ idCounter = 0
    /\ deleted = {}
    /\ ops = 0
    /\ peer = [file |-> Absent, DefaultCollections |-> Seed, data |-> EmptyMap]
    /\ calls = [c \in Callers |-> Idle]
    /\ last = [op |-> "none", kind |-> "none", name |-> "", id |-> 0, arg |-> EmptyMap,
               ret |-> Void]

\* the call up to its await this.write(data), or to its return when it does
\* not write
Begin(c, call) ==
    /\ calls[c].phase = "idle"
    /\ \E out \in {Apply(call, Heap)} :
         /\ calls' = [calls EXCEPT ![c] = IF Writes(out)
                                          THEN [call EXCEPT !.out = out]
                                          ELSE Done(call, out.ret)]
         /\ idCounter' = IF out.gen THEN idCounter + 1 ELSE idCounter
         /\ last' = Call(call.op, "file", call.name, c, call.arg,
                         IF Writes(out) THEN Void ELSE out.ret)
    /\ UNCHANGED <<env, file, DefaultCollections, data, manager, clock, deleted, ops, peer>>

BeginCreateRecord(c) ==
    /\ calls[c].phase = "idle"
    /\ \E collection \in Names :
        Begin(c, InFlight("read", "createRecord", collection, 0, [name |-> "a"],
                          idCounter + 1, clock, Void))

BeginUpdateRecord(c) ==
    /\ calls[c].phase = "idle"
    /\ \E id \in ConcurrentIds :
        Begin(c, InFlight("read", "updateRecord", "users", id, [name |-> "b"], 0, clock,
                          Void))

BeginDeleteRecord(c) ==
    /\ calls[c].phase = "idle"
    /\ \E id \in ConcurrentIds :
        Begin(c, InFlight("read", "deleteRecord", "users", id, EmptyMap, 0, clock, Void))

\* fs.writeFile has opened the file: truncated, text not yet complete
StartWrite(c) ==
    /\ calls[c].phase = "read"
    /\ file' = Garbage
    /\ calls' = [calls EXCEPT ![c].phase = "writing"]
    /\ last' = Call("writeFile", "file", calls[c].name, c, EmptyMap, Void)
    /\ UNCHANGED <<env, DefaultCollections, data, manager, clock, idCounter, deleted, ops,
                   peer>>

\* fs.writeFile has settled: the text is complete and the method returns
EndWrite(c) ==
    /\ calls[c].phase = "writing"
    /\ file' = calls[c].out.h.file
    /\ calls' = [calls EXCEPT ![c] = Done(calls[c], calls[c].out.ret)]
    /\ last' = Call(calls[c].op, "file", calls[c].name, c, calls[c].arg, calls[c].out.ret)
    /\ UNCHANGED <<env, DefaultCollections, data, manager, clock, idCounter, deleted, ops,
                   peer>>

\* the process stops while a mutating call is in flight
Crash ==
    /\ \E c \in Callers : calls[c].phase \in {"read", "writing"}
    /\ calls' = [c \in Callers |-> [phase |-> "stopped"]]
    /\ last' = Call("crash", "file", "", 0, EmptyMap, Void)
    /\ UNCHANGED <<env, file, DefaultCollections, data, manager, clock, idCounter, deleted,
                   ops, peer>>

NextConcurrent ==
    \/ \E c \in Callers : BeginCreateRecord(c)
    \/ \E c \in Callers : BeginUpdateRecord(c)
    \/ \E c \in Callers : BeginDeleteRecord(c)
    \/ \E c \in Callers : StartWrite(c)
    \/ \E c \in Callers : EndWrite(c)
    \/ Crash

SpecConcurrent == InitConcurrent /\ [][NextConcurrent]_vars

\* FileStorage.createBackup up to its second await: data is what this.read()
\* returned; the call throws when the file cannot be parsed
BackupRead(c) ==
    /\ calls[c].phase = "idle"
    /\ calls' = [calls EXCEPT ![c] =
          IF FileReadThrows(Heap, "none")
          THEN Done(InFlight("read", "createBackup", "", 0, EmptyMap, 0, clock, Void), Threw)
          ELSE InFlight("backupRead", "createBackup", "", 0, EmptyMap, 0, clock,
                        FileRead(Heap))]
    /\ last' = Call("createBackup", "file", "", c, EmptyMap,
                    IF FileReadThrows(Heap, "none") THEN Threw ELSE Void)
    /\ UNCHANGED <<env, file, DefaultCollections, data, manager, clock, idCounter, deleted,
                   ops, peer>>

\* the result of createBackup from the data it read and the stats it got
Backup(read, stats) ==
    IF stats.tag = "threw" THEN Threw
    ELSE [tag |-> "backup", data |-> read,
          metadata |-> [storageType |-> stats.storageType,
                        totalCollections |-> stats.totalCollections,
                        totalRecords |-> stats.totalRecords,
                        collections |-> stats.collections]]

\* FileStorage.createBackup from its await this.getStats(), which reads the
\* file again, to its return
BackupStats(c) ==
    /\ calls[c].phase = "backupRead"
    /\ \E ret \in {Backup(calls[c].out, FileGetStats(Heap, "none"))} :
         /\ calls' = [calls EXCEPT ![c] = Done(calls[c], ret)]
         /\ last' = Call("createBackup", "file", "", c, EmptyMap, ret)
    /\ UNCHANGED <<env, file, DefaultCollections, data, manager, clock, idCounter, deleted,
                   ops, peer>>

NextBackup ==
    \/ \E c \in Callers : BeginCreateRecord(c)
    \/ \E c \in Callers : BeginDeleteRecord(c)
    \/ \E c \in Callers : StartWrite(c)
    \/ \E c \in Callers : EndWrite(c)
    \/ \E c \in Callers : BackupRead(c)
    \/ \E c \in Callers : BackupStats(c)

SpecBackup == InitConcurrent /\ [][NextBackup]_vars

-----------------------------------------------------------------------------
(* What callers hold.  A value an adapter returns is a fresh copy, or it is
   the very array or object the adapter (or DefaultCollections) keeps, and
   then it changes when the adapter's does, and the other way round *)

\* an array of records held by a caller: a copy of its own, the array
\* DefaultCollections[c], or the array this.data[c] of the MemoryStorage
CopyRef(recs) == [kind |-> "copy", recs |-> recs]
DefaultRef == [kind |-> "default"]
OwnRef == [kind |-> "own"]

\* MemoryStorage.createBackup: data is { ...this.data }, the same arrays
MemCreateBackup(h) ==
    [tag |-> "backup", storageType |-> "memory",
     data |-> [c \in DOMAIN h.data |-> IF h.data[c].shared THEN DefaultRef ELSE OwnRef]]

\* FileStorage.createBackup: data is what this.read() returned
FileCreateBackup(h, fail) ==
    IF FileReadThrows(h, fail) THEN Threw
    ELSE [tag |-> "backup", storageType |-> "file",
          data |-> [c \in DOMAIN FileRead(h) |->
                      IF FromDefault(h) THEN DefaultRef ELSE CopyRef(FileRead(h)[c])]]

createBackup(k, h) == IF k = "file" THEN FileCreateBackup(h, "none") ELSE MemCreateBackup(h)

\* what the data of a held backup shows in heap h
BackupView(b, h) ==
    [c \in DOMAIN b.data |->
        IF b.data[c].kind = "copy" THEN b.data[c].recs
        ELSE IF b.data[c].kind = "default" THEN h.DefaultCollections[c]
        ELSE h.data[c].recs]

\* the held backup once the adapter has assigned new arrays to this.data[c]
\* for c in cs: the arrays it held are no longer the adapter's
Detach(b, h, cs) ==
    [b EXCEPT !.data = [c \in DOMAIN b.data |->
        IF b.data[c].kind = "own" /\ c \in cs THEN CopyRef(h.data[c].recs)
        ELSE b.data[c]]]

Holding(b, snapshot) == [phase |-> "holding", backup |-> b, snapshot |-> snapshot]

\* the callers' backups after a call that assigned new arrays to the keys cs
DetachAll(h, cs) ==
    [c \in DOMAIN calls |->
        IF calls[c].phase = "holding"
        THEN [calls[c] EXCEPT !.backup = Detach(calls[c].backup, h, cs)]
        ELSE calls[c]]

\* the heap after a caller assigns a field of the record getRecord returned:
\* MemoryStorage returns { ...record }; FileStorage returns an object of the
\* document it parsed, or of DefaultCollections when there is no file
AfterChangeOfGetRecord(k, h, collection, id, field, value) ==
    IF k = "file" /\ FromDefault(h) /\ collection \in DOMAIN h.DefaultCollections
         /\ FindIndex(h.DefaultCollections[collection], id) # 0
    THEN [h EXCEPT !.DefaultCollections[collection][
                       FindIndex(h.DefaultCollections[collection], id)][field] = value]
    ELSE h

\* the heap after a caller assigns a field of element i of the array
\* getCollection returned: MemoryStorage returns [...this.data[collection]], a
\* new array of the same record objects
AfterChangeOfGetCollection(k, h, collection, i, field, value) ==
    IF k = "file"
    THEN IF FromDefault(h) /\ collection \in DOMAIN h.DefaultCollections
         THEN [h EXCEPT !.DefaultCollections[collection][i][field] = value]
         ELSE h
    ELSE MemMutate(h, collection,
                   [MemRecs(h, collection) EXCEPT ![i] = Put(@, field, value)])

\* the heap after a caller removes the first element of the array
\* getCollection returned
AfterShiftOfGetCollection(k, h, collection) ==
    IF k = "file" /\ FromDefault(h) /\ collection \in DOMAIN h.DefaultCollections
    THEN [h EXCEPT !.DefaultCollections[collection] = Tail(@)]
    ELSE h

\* the heap after a caller pushes a record onto the array getCollection
\* returned
AfterPushOfGetCollection(k, h, collection, record) ==
    IF k = "file" /\ FromDefault(h) /\ collection \in DOMAIN h.DefaultCollections
    THEN [h EXCEPT !.DefaultCollections[collection] = Append(@, record)]
    ELSE h

\* an adapter after init(), file or memory, nothing stored yet
InitCopies ==
    /\ env \in Envs
    /\ manager \in {[storage |-> k, initialized |-> TRUE, instance |-> 1] :
                      k \in {"file", "memory"}}
    /\ file = DocFile(Seed, FALSE)
    /\ DefaultCollections = Seed
    /\ data = IF manager.storage = "memory" THEN [c \in DOMAIN Seed |-> Shared]
              ELSE EmptyMap
    /\ clock = 0
    /\ idCounter = 0
    /\ deleted = {}
    /\ ops = 0
    /\ peer = [file |-> Absent, DefaultCollections |-> Seed, data |-> EmptyMap]
    /\ calls = [c \in Callers |-> Idle]
    /\ last = [op |-> "none", kind |-> "none", name |-> "", id |-> 0, arg |-> EmptyMap,
               ret |-> Void]

\* the collections of the Document that hold a record
Stocked == {c \in Collections(K, Heap) : Document(K, Heap)[c] # <<>>}

HeldCreateRecord ==
    /\ ops < MaxOps
    /\ ops' = ops + 1
    /\ \E collection \in Names :
       \E out \in {createRecord(K, Heap, collection, [name |-> "a"], idCounter + 1,
                                clock, clock, "none")} :
         /\ SetHeap(out.h)
         /\ idCounter' = idCounter + 1
         /\ last' = Call("createRecord", K, collection, 0, [name |-> "a"], out.ret)
    /\ UNCHANGED <<calls, env, manager, clock, deleted, peer>>

HeldUpdateRecord ==
    /\ ops < MaxOps
    /\ ops' = ops + 1
    /\ \E collection \in Stocked :
       \E out \in {updateRecord(K, Heap, collection, Document(K, Heap)[collection][1].id,
                                [name |-> "b"], clock, "none")} :
         /\ SetHeap(out.h)
         /\ last' = Call("updateRecord", K, collection, out.ret.val.id, [name |-> "b"],
                         out.ret)
    /\ UNCHANGED <<calls, env, manager, clock, idCounter, deleted, peer>>

HeldDeleteRecord ==
    /\ ops < MaxOps
    /\ ops' = ops + 1
    /\ \E collection \in Stocked :
       \E out \in {deleteRecord(K, Heap, collection, Document(K, Heap)[collection][1].id,
                                "none")} :
         /\ SetHeap(out.h)
         /\ calls' = DetachAll(Heap, {collection})
         /\ last' = Call("deleteRecord", K, collection, 0, EmptyMap, out.ret)
    /\ UNCHANGED <<env, manager, clock, idCounter, deleted, peer>>

HeldClear ==
    /\ ops < MaxOps
    /\ ops' = ops + 1
    /\ \E out \in {clear(K, Heap, "none")} :
         /\ SetHeap(out.h)
         /\ calls' = DetachAll(Heap, DOMAIN data)
         /\ last' = Call("clear", K, "", 0, EmptyMap, out.ret)
    /\ UNCHANGED <<env, manager, clock, idCounter, deleted, peer>>

\* const backup = await storage.createBackup(), kept by the caller
TakeBackup(c) ==
    /\ calls[c].phase = "idle"
    /\ \E b \in {createBackup(K, Heap)} :
         /\ calls' = [calls EXCEPT ![c] = Holding(b, BackupView(b, Heap))]
         /\ last' = Call("createBackup", K, "", c, EmptyMap,
                         [tag |-> "backup", data |-> BackupView(b, Heap)])
    /\ UNCHANGED <<env, file, DefaultCollections, data, manager, clock, idCounter, deleted,
                   ops, peer>>

\* const r = await storage.getRecord(collection, id); r.name = "z"
ChangeReturnedRecord ==
    /\ \E collection \in Stocked :
         /\ SetHeap(AfterChangeOfGetRecord(K, Heap, collection,
                                           Document(K, Heap)[collection][1].id, "name", "z"))
         /\ last' = Call("changeReturnedRecord", K, collection, 0, [name |-> "z"],
                         getRecord(K, Heap, collection, Document(K, Heap)[collection][1].id))
    /\ UNCHANGED <<calls, env, manager, clock, idCounter, deleted, ops, peer>>

\* const rs = await storage.getCollection(collection); rs[0].name = "z"
ChangeReturnedCollectionRecord ==
    /\ \E collection \in Stocked :
         /\ SetHeap(AfterChangeOfGetCollection(K, Heap, collection, 1, "name", "z"))
         /\ last' = Call("changeReturnedCollectionRecord", K, collection, 0,
                         [name |-> "z"], getCollection(K, Heap, collection))
    /\ UNCHANGED <<calls, env, manager, clock, idCounter, deleted, ops, peer>>

\* const rs = await storage.getCollection(collection); rs.shift()
ShiftReturnedCollection ==
    /\ \E collection \in Stocked :
         /\ SetHeap(AfterShiftOfGetCollection(K, Heap, collection))
         /\ last' = Call("shiftReturnedCollection", K, collection, 0, EmptyMap,
                         getCollection(K, Heap, collection))
    /\ UNCHANGED <<calls, env, manager, clock, idCounter, deleted, ops, peer>>

\* const rs = await storage.getCollection(collection); rs.push({id: -1})
PushReturnedCollection ==
    /\ \E collection \in Names :
         /\ SetHeap(AfterPushOfGetCollection(K, Heap, collection, [id |-> OldId]))
         /\ last' = Call("pushReturnedCollection", K, collection, 0, [id |-> OldId],
                         getCollection(K, Heap, collection))
    /\ UNCHANGED <<calls, env, manager, clock, idCounter, deleted, ops, peer>>

NextCopies ==
    \/ HeldCreateRecord
    \/ HeldUpdateRecord
    \/ HeldDeleteRecord
    \/ HeldClear
    \/ \E c \in Callers : TakeBackup(c)
    \/ ChangeReturnedRecord
    \/ ChangeReturnedCollectionRecord
    \/ ShiftReturnedCollection
    \/ PushReturnedCollection

SpecCopies == InitCopies /\ [][NextCopies]_vars

-----------------------------------------------------------------------------
(* A FileStorage constructed on its own, new FileStorage(filePath), over
   whatever the path holds: nothing, text that is not JSON, a JSON scalar, or
   a document *)

StartupFiles == InitialFiles \cup {Scalar}

InitStartup ==
    /\ env \in Envs
    /\ manager = [storage |-> "file", initialized |-> FALSE, instance |-> 0]
    /\ file \in StartupFiles
    /\ DefaultCollections = Seed
    /\ data = EmptyMap
    /\ clock = 0
    /\ idCounter = 0
    /\ deleted = {}
    /\ ops = 0
    /\ peer = [file |-> Absent, DefaultCollections |-> Seed, data |-> EmptyMap]
    /\ calls = EmptyMap
    /\ last = [op |-> "none", kind |-> "none", name |-> "", id |-> 0, arg |-> EmptyMap,
               ret |-> Void]

\* await storage.init()
StartupInit ==
    /\ ops < MaxOps
    /\ ops' = ops + 1
    /\ \E fail \in InitFails("file") :
       \E out \in {FileInit(Heap, fail)} :
         /\ SetHeap(out.h)
         /\ last' = Call("init", "file", "", 0, [fail |-> fail], out.ret)
    /\ UNCHANGED <<calls, env, manager, clock, idCounter, deleted, peer>>

\* await storage.createRecord(collection, record)
StartupCreateRecord ==
    /\ ops < MaxOps
    /\ ops' = ops + 1
    /\ \E collection \in Names, record \in Payloads({0}), fail \in Fails("file") :
       \E out \in {FileCreateRecord(Heap, collection, record, idCounter + 1, clock, clock,
                                    fail)} :
         /\ SetHeap(out.h)
         /\ idCounter' = IF out.gen THEN idCounter + 1 ELSE idCounter
         /\ last' = Call("createRecord", "file", collection, 0, record, out.ret)
    /\ UNCHANGED <<calls, env, manager, clock, deleted, peer>>

\* await storage.getCollection(collection)
StartupGetCollection ==
    /\ \E collection \in Names :
         last' = Call("getCollection", "file", collection, 0, EmptyMap,
                      FileGetCollection(Heap, collection, "none"))
    /\ UNCHANGED <<calls, env, file, DefaultCollections, data, manager, clock, idCounter,
                   deleted, ops, peer>>

NextStartup ==
    \/ StartupInit
    \/ StartupCreateRecord
    \/ StartupGetCollection

SpecStartup == InitStartup /\ [][NextStartup]_vars

-----------------------------------------------------------------------------
(* The HTTP handlers, src/controllers/storageController.js and the /health
   route of src/routes/index.js, over the adapter storageManager holds *)

\* res.status(status).json({success, ...}); called is the adapter method the
\* handler awaited ("none" when it answered before calling one) and ret what
\* that method returned
Response(status, success, called, ret) ==
    [tag |-> "response", status |-> status, success |-> success, called |-> called,
     ret |-> ret]

\* what a handler leaves behind: the heap and the response it sent
Handled(h, res, gen) == [h |-> h, res |-> res, gen |-> gen]

\* req.body after express.json(): an object with the fields sent, or undefined
Body(fields) == [kind |-> "object", fields |-> fields]
NoBody == [kind |-> "undefined"]

\* !recordData || typeof recordData !== 'object'
InvalidBody(body) == body.kind # "object"

\* storage.getCollection / getRecord with a refused file system step
ReadCollection(k, h, collection, fail) ==
    IF k = "file" THEN FileGetCollection(h, collection, fail)
    ELSE MemGetCollection(h, collection)

ReadRecord(k, h, collection, id, fail) ==
    IF k = "file" THEN FileGetRecord(h, collection, id, fail)
    ELSE MemGetRecord(h, collection, id)

\* getAllRecords: GET /api/storage/:collection
HandleGetAllRecords(m, h, collection, fail) ==
    IF getStorage(m) = Threw THEN Handled(h, Response(400, FALSE, "none", Threw), FALSE)
    ELSE LET records == ReadCollection(m.storage, h, collection, fail)
         IN IF records = Threw
            THEN Handled(h, Response(400, FALSE, "getCollection", Threw), FALSE)
            ELSE Handled(h, Response(200, TRUE, "getCollection", records), FALSE)

\* getRecord: GET /api/storage/:collection/:id
HandleGetRecord(m, h, collection, id, fail) ==
    IF getStorage(m) = Threw THEN Handled(h, Response(400, FALSE, "none", Threw), FALSE)
    ELSE LET record == ReadRecord(m.storage, h, collection, id, fail)
         IN IF record = Threw
            THEN Handled(h, Response(400, FALSE, "getRecord", Threw), FALSE)
            ELSE IF record = Null
                 THEN Handled(h, Response(404, FALSE, "getRecord", Null), FALSE)
            ELSE Handled(h, Response(200, TRUE, "getRecord", record), FALSE)

\* the response of createRecord once storage.createRecord has settled
CreateResponse(out) ==
    IF out.ret = Threw
    THEN Handled(out.h, Response(400, FALSE, "createRecord", Threw), out.gen)
    ELSE Handled(out.h, Response(201, TRUE, "createRecord", out.ret), out.gen)

\* createRecord: POST /api/storage/:collection
HandleCreateRecord(m, h, collection, body, gen, t1, t2, fail) ==
    IF getStorage(m) = Threw THEN Handled(h, Response(400, FALSE, "none", Threw), FALSE)
    ELSE IF InvalidBody(body) THEN Handled(h, Response(400, FALSE, "none", Void), FALSE)
    ELSE CreateResponse(createRecord(m.storage, h, collection, body.fields, gen, t1, t2,
                                     fail))

\* the response of updateRecord once storage.updateRecord has settled
UpdateResponse(out) ==
    IF out.ret = Threw
    THEN Handled(out.h, Response(400, FALSE, "updateRecord", Threw), FALSE)
    ELSE IF out.ret = Null
         THEN Handled(out.h, Response(404, FALSE, "updateRecord", Null), FALSE)
    ELSE Handled(out.h, Response(200, TRUE, "updateRecord", out.ret), FALSE)

\* updateRecord: PUT /api/storage/:collection/:id
HandleUpdateRecord(m, h, collection, id, body, now, fail) ==
    IF getStorage(m) = Threw THEN Handled(h, Response(400, FALSE, "none", Threw), FALSE)
    ELSE IF InvalidBody(body) THEN Handled(h, Response(400, FALSE, "none", Void), FALSE)
    ELSE UpdateResponse(updateRecord(m.storage, h, collection, id, body.fields, now, fail))

\* a by-id handler that answers 200 whatever the adapter returned
DeleteResponseAlwaysOk(out) ==
    IF out.ret = Threw
    THEN Handled(out.h, Response(400, FALSE, "deleteRecord", Threw), FALSE)
    ELSE Handled(out.h, Response(200, TRUE, "deleteRecord", out.ret), FALSE)

\* the response of deleteRecord once storage.deleteRecord has settled
DeleteResponse(out) ==
    IF out.ret = Threw
    THEN Handled(out.h, Response(400, FALSE, "deleteRecord", Threw), FALSE)
    ELSE IF out.ret = Bool(FALSE)
         THEN Handled(out.h, Response(404, FALSE, "deleteRecord", out.ret), FALSE)
    ELSE Handled(out.h, Response(200, TRUE, "deleteRecord", out.ret), FALSE)

\* deleteRecord: DELETE /api/storage/:collection/:id
HandleDeleteRecord(m, h, collection, id, fail) ==
    IF getStorage(m) = Threw THEN Handled(h, Response(400, FALSE, "none", Threw), FALSE)
    ELSE DeleteResponse(deleteRecord(m.storage, h, collection, id, fail))

\* the response of healthCheck once storage.healthCheck and getStats settled
StorageHealthResponse(out, stats) ==
    IF out.ret = Threw \/ stats = Threw
    THEN Handled(out.h, Response(503, FALSE, "healthCheck", out.ret), out.gen)
    ELSE IF out.ret.val
         THEN Handled(out.h, Response(200, TRUE, "healthCheck", out.ret), out.gen)
    ELSE Handled(out.h, Response(503, FALSE, "healthCheck", out.ret), out.gen)

\* healthCheck: GET /api/storage/health
HandleStorageHealth(m, h, gen, now, fail) ==
    IF getStorage(m) = Threw THEN Handled(h, Response(503, FALSE, "none", Threw), FALSE)
    ELSE StorageHealthResponse(healthCheck(m.storage, h, gen, now, fail),
                               getStats(m.storage, healthCheck(m.storage, h, gen, now, fail).h))

\* GET /health of routes/index.js: getStats, then healthCheck, then 200 with
\* ok: true and storage.healthy in the body
HandleHealth(m, h, gen, now, fail) ==
    IF getStorage(m) = Threw THEN Handled(h, Response(500, FALSE, "none", Threw), FALSE)
    ELSE IF getStats(m.storage, h) = Threw
         THEN Handled(h, Response(500, FALSE, "getStats", Threw), FALSE)
    ELSE LET out == healthCheck(m.storage, h, gen, now, fail)
         IN Handled(out.h, Response(200, TRUE, "healthCheck", out.ret), out.gen)

\* a clear handler without the environment check
HandleClearStorageUnchecked(m, h, fail) ==
    IF getStorage(m) = Threw
    THEN Handled(h, Response(500, FALSE, "none", Threw), FALSE)
    ELSE LET out == clear(m.storage, h, fail)
         IN IF out.ret = Threw
            THEN Handled(out.h, Response(500, FALSE, "clear", Threw), FALSE)
            ELSE Handled(out.h, Response(200, TRUE, "clear", Void), FALSE)

\* clearStorage: DELETE /api/storage/clear
HandleClearStorage(m, h, fail) ==
    IF env.NODE_ENV = "production"
    THEN Handled(h, Response(403, FALSE, "none", Void), FALSE)
    ELSE IF getStorage(m) = Threw
         THEN Handled(h, Response(500, FALSE, "none", Threw), FALSE)
    ELSE LET out == clear(m.storage, h, fail)
         IN IF out.ret = Threw
            THEN Handled(out.h, Response(500, FALSE, "clear", Threw), FALSE)
            ELSE Handled(out.h, Response(200, TRUE, "clear", Void), FALSE)

\* NODE_ENV of the server process; "" stands for unset
HttpNodeEnvs == {"production", "prod", "test", ""}

\* request bodies: nothing parsed, {}, or one field
HttpBodies == {NoBody, Body(EmptyMap), Body([name |-> "a"])}

\* a request as last shows it
Request(body, fail) == [body |-> body, fail |-> fail]

\* the server once startServer's storageManager.init() has returned, the
\* STORAGE_TYPE setting having chosen the adapter
InitHttp ==
    /\ manager \in {[storage |-> k, initialized |-> TRUE, instance |-> 1] :
                      k \in {"file", "memory"}}
    /\ env \in {Env(n, manager.storage, "") : n \in HttpNodeEnvs}
    /\ file = IF manager.storage = "file" THEN DocFile(Seed, FALSE) ELSE Absent
    /\ DefaultCollections = Seed
    /\ data = IF manager.storage = "memory" THEN [c \in DOMAIN Seed |-> Shared]
              ELSE EmptyMap
    /\ clock = 0
    /\ idCounter = 0
    /\ deleted = {}
    /\ ops = 0
    /\ peer = [file |-> Absent, DefaultCollections |-> Seed, data |-> EmptyMap]
    /\ calls = EmptyMap
    /\ last = [op |-> "none", kind |-> "none", name |-> "", id |-> 0, arg |-> EmptyMap,
               ret |-> Void]

HttpGetAllRecords ==
    /\ \E collection \in Names, fail \in Fails(K) \ {"write"} :
       \E done \in {HandleGetAllRecords(manager, Heap, collection, fail)} :
         last' = Call("GET /:collection", K, collection, 0, Request(NoBody, fail), done.res)
    /\ UNCHANGED <<calls, env, file, DefaultCollections, data, manager, clock, idCounter,
                   deleted, ops, peer>>

HttpGetRecord ==
    /\ \E collection \in Names, id \in KnownIds, fail \in Fails(K) \ {"write"} :
       \E done \in {HandleGetRecord(manager, Heap, collection, id, fail)} :
         last' = Call("GET /:collection/:id", K, collection, id, Request(NoBody, fail),
                      done.res)
    /\ UNCHANGED <<calls, env, file, DefaultCollections, data, manager, clock, idCounter,
                   deleted, ops, peer>>

HttpCreateRecord ==
    /\ ops < MaxOps
    /\ ops' = ops + 1
    /\ \E collection \in Names, body \in HttpBodies, fail \in Fails(K) :
       \E done \in {HandleCreateRecord(manager, Heap, collection, body, idCounter + 1,
                                       clock, clock, fail)} :
         /\ SetHeap(done.h)
         /\ idCounter' = IF done.gen THEN idCounter + 1 ELSE idCounter
         /\ last' = Call("POST /:collection", K, collection, 0, Request(body, fail),
                         done.res)
    /\ UNCHANGED <<calls, env, manager, clock, deleted, peer>>

HttpUpdateRecord ==
    /\ ops < MaxOps
    /\ ops' = ops + 1
    /\ \E collection \in Names, id \in KnownIds, body \in HttpBodies, fail \in Fails(K) :
       \E done \in {HandleUpdateRecord(manager, Heap, collection, id, body, clock, fail)} :
         /\ SetHeap(done.h)
         /\ last' = Call("PUT /:collection/:id", K, collection, id, Request(body, fail),
                         done.res)
    /\ UNCHANGED <<calls, env, manager, clock, idCounter, deleted, peer>>

HttpDeleteRecord ==
    /\ ops < MaxOps
    /\ ops' = ops + 1
    /\ \E collection \in Names, id \in KnownIds, fail \in Fails(K) :
       \E done \in {HandleDeleteRecord(manager, Heap, collection, id, fail)} :
         /\ SetHeap(done.h)
         /\ deleted' = IF done.res.status = 200
                       THEN deleted \cup {<<collection, id>>} ELSE deleted
         /\ last' = Call("DELETE /:collection/:id", K, collection, id,
                         Request(NoBody, fail), done.res)
    /\ UNCHANGED <<calls, env, manager, clock, idCounter, peer>>

HttpStorageHealth ==
    /\ ops < MaxOps
    /\ ops' = ops + 1
    /\ \E fail \in HealthFails(K) :
       \E done \in {HandleStorageHealth(manager, Heap, idCounter + 1, clock, fail)} :
         /\ SetHeap(done.h)
         /\ idCounter' = IF done.gen THEN idCounter + 1 ELSE idCounter
         /\ last' = Call("GET /api/storage/health", K, "", 0, Request(NoBody, fail),
                         done.res)
    /\ UNCHANGED <<calls, env, manager, clock, deleted, peer>>

HttpHealth ==
    /\ ops < MaxOps
    /\ ops' = ops + 1
    /\ \E fail \in HealthFails(K) :
       \E done \in {HandleHealth(manager, Heap, idCounter + 1, clock, fail)} :
         /\ SetHeap(done.h)
         /\ idCounter' = IF done.gen THEN idCounter + 1 ELSE idCounter
         /\ last' = Call("GET /health", K, "", 0, Request(NoBody, fail), done.res)
    /\ UNCHANGED <<calls, env, manager, clock, deleted, peer>>

HttpClearStorage ==
    /\ ops < MaxOps
    /\ ops' = ops + 1
    /\ \E fail \in Fails(K) \ {"read"} :
       \E done \in {HandleClearStorage(manager, Heap, fail)} :
         /\ SetHeap(done.h)
         /\ last' = Call("DELETE /clear", K, "", 0, Request(NoBody, fail), done.res)
    /\ UNCHANGED <<calls, env, manager, clock, idCounter, deleted, peer>>

NextHttp ==
    \/ HttpGetAllRecords
    \/ HttpGetRecord
    \/ HttpCreateRecord
    \/ HttpUpdateRecord
    \/ HttpDeleteRecord
    \/ HttpStorageHealth
    \/ HttpHealth
    \/ HttpClearStorage

SpecHttp == InitHttp /\ [][NextHttp]_vars

-----------------------------------------------------------------------------
(* Callers of one MemoryStorage, each awaiting one mutating call.  The async
   methods createRecord, updateRecord and deleteRecord hold no await: the
   body runs to its return when the method is called, and the caller resumes
   in a later turn of the event loop *)

\* the heap after init() and createRecord("users", {id, name}) at clock 0
MemConcurrentHeap ==
    [file |-> Absent, DefaultCollections |-> Put(Seed, "users", <<OldRecord>>),
     data |-> [c \in DOMAIN Seed |-> Shared]]

\* the method a call runs on the MemoryStorage, run from heap h
MemApply(call, h) ==
    IF call.op = "createRecord"
    THEN MemCreateRecord(h, call.name, call.arg, call.gen, call.now, call.now)
    ELSE IF call.op = "updateRecord"
    THEN MemUpdateRecord(h, call.name, call.id, call.arg, call.now)
    ELSE MemDeleteRecord(h, call.name, call.id)

\* a resumption that stores the data the call had computed when it was issued
MemResumedWritingBack(call, h) == call.out.h

\* the heap once the awaiting caller resumes: the method has nothing left to run
MemResumed(call, h) == h

InitMemConcurrent ==
    /\ env \in Envs
    /\ file = MemConcurrentHeap.file
    /\ DefaultCollections = MemConcurrentHeap.DefaultCollections
    /\ data = MemConcurrentHeap.data
    /\ manager = [storage |-> "memory", initialized |-> TRUE, instance |-> 1]
    /\ clock = 0
    /\ idCounter = 0
    /\ deleted = {}
    /\ ops = 0
    /\ peer = [file |-> Absent, DefaultCollections |-> Seed, data |-> EmptyMap]
    /\ calls = [c \in Callers |-> Idle]
    /\ last = [op |-> "none", kind |-> "none", name |-> "", id |-> 0, arg |-> EmptyMap,
               ret |-> Void]

\* storage.<method>(...) is called: its body runs, the promise is pending
Issue(c, call) ==
    /\ calls[c].phase = "idle"
    /\ \E out \in {MemApply(call, Heap)} :
         /\ SetHeap(out.h)
         /\ calls' = [calls EXCEPT ![c] = [call EXCEPT !.out = out]]
         /\ idCounter' = IF out.gen THEN idCounter + 1 ELSE idCounter
         /\ last' = Call(call.op, "memory", call.name, c, call.arg, Void)
    /\ UNCHANGED <<env, manager, clock, deleted, ops, peer>>

IssueCreateRecord(c) ==
    /\ calls[c].phase = "idle"
    /\ \E collection \in Names :
        Issue(c, InFlight("settled", "createRecord", collection, 0, [name |-> "a"],
                          idCounter + 1, clock, Void))

IssueUpdateRecord(c) ==
    /\ calls[c].phase = "idle"
    /\ \E id \in ConcurrentIds :
        Issue(c, InFlight("settled", "updateRecord", "users", id, [name |-> "b"], 0, clock,
                          Void))

IssueDeleteRecord(c) ==
    /\ calls[c].phase = "idle"
    /\ \E id \in ConcurrentIds :
        Issue(c, InFlight("settled", "deleteRecord", "users", id, EmptyMap, 0, clock, Void))

\* the caller's await resumes with the method's result
Resume(c) ==
    /\ calls[c].phase = "settled"
    /\ SetHeap(MemResumed(calls[c], Heap))
    /\ calls' = [calls EXCEPT ![c] = Done(calls[c], calls[c].out.ret)]
    /\ last' = Call(calls[c].op, "memory", calls[c].name, c, calls[c].arg,
                    calls[c].out.ret)
    /\ UNCHANGED <<env, manager, clock, idCounter, deleted, ops, peer>>

NextMemConcurrent ==
    \/ \E c \in Callers : IssueCreateRecord(c)
    \/ \E c \in Callers : IssueUpdateRecord(c)
    \/ \E c \in Callers : IssueDeleteRecord(c)
    \/ \E c \in Callers : Resume(c)

SpecMemConcurrent == InitMemConcurrent /\ [][NextMemConcurrent]_vars

-----------------------------------------------------------------------------
(* Two MemoryStorage instances constructed in one process: instance 1 keeps
   its data in data, instance 2 in peer.data, and both import the one
   DefaultCollections object of the module *)

Instances == {1, 2}

\* the heap as instance i sees it
HeapOf(i) ==
    [file |-> file, DefaultCollections |-> DefaultCollections,
     data |-> IF i = 1 THEN data ELSE peer.data]

\* the heap left by a call on instance i
SetHeapOf(i, h) ==
    /\ DefaultCollections' = h.DefaultCollections
    /\ data' = IF i = 1 THEN h.data ELSE data
    /\ peer' = IF i = 1 THEN peer ELSE [peer EXCEPT !.data = h.data]
    /\ UNCHANGED file

\* what getCollection and getStats show of instance i in heap h
Observed(i, h) ==
    [document |-> Document("memory", h), stats |-> MemGetStats(h)]

\* a call on instance i as last shows it
InstanceCall(i, body) == [instance |-> i, body |-> body]

\* both instances constructed, neither initialised
InitInstances ==
    /\ env \in Envs
    /\ file = Absent
    /\ DefaultCollections = Seed
    /\ data = EmptyMap
    /\ peer = [file |-> Absent, DefaultCollections |-> Seed, data |-> EmptyMap]
    /\ manager = [storage |-> "memory", initialized |-> FALSE, instance |-> 0]
    /\ clock = 0
    /\ idCounter = 0
    /\ deleted = {}
    /\ ops = 0
    /\ calls = EmptyMap
    /\ last = [op |-> "none", kind |-> "none", name |-> "", id |-> 0, arg |-> EmptyMap,
               ret |-> Void]

InstanceInit(i) ==
    /\ ops < MaxOps + 1
    /\ ops' = ops + 1
    /\ \E out \in {MemInit(HeapOf(i))} :
         /\ SetHeapOf(i, out.h)
         /\ last' = Call("init", "memory", "", 0, InstanceCall(i, EmptyMap), out.ret)
    /\ UNCHANGED <<calls, env, manager, clock, idCounter, deleted>>

InstanceCreateRecord(i) ==
    /\ ops < MaxOps + 1
    /\ ops' = ops + 1
    /\ \E collection \in Names :
       \E out \in {MemCreateRecord(HeapOf(i), collection, [name |-> "a"], idCounter + 1,
                                   clock, clock)} :
         /\ SetHeapOf(i, out.h)
         /\ idCounter' = idCounter + 1
         /\ last' = Call("createRecord", "memory", collection, 0,
                         InstanceCall(i, [name |-> "a"]), out.ret)
    /\ UNCHANGED <<calls, env, manager, clock, deleted>>

InstanceUpdateRecord(i) ==
    /\ ops < MaxOps + 1
    /\ ops' = ops + 1
    /\ \E collection \in Names, id \in 1..idCounter :
       \E out \in {MemUpdateRecord(HeapOf(i), collection, id, [name |-> "b"], clock)} :
         /\ SetHeapOf(i, out.h)
         /\ last' = Call("updateRecord", "memory", collection, id,
                         InstanceCall(i, [name |-> "b"]), out.ret)
    /\ UNCHANGED <<calls, env, manager, clock, idCounter, deleted>>

InstanceDeleteRecord(i) ==
    /\ ops < MaxOps + 1
    /\ ops' = ops + 1
    /\ \E collection \in Names, id \in 1..idCounter :
       \E out \in {MemDeleteRecord(HeapOf(i), collection, id)} :
         /\ SetHeapOf(i, out.h)
         /\ last' = Call("deleteRecord", "memory", collection, id,
                         InstanceCall(i, EmptyMap), out.ret)
    /\ UNCHANGED <<calls, env, manager, clock, idCounter, deleted>>

InstanceClear(i) ==
    /\ ops < MaxOps + 1
    /\ ops' = ops + 1
    /\ \E out \in {MemClear(HeapOf(i))} :
         /\ SetHeapOf(i, out.h)
         /\ last' = Call("clear", "memory", "", 0, InstanceCall(i, EmptyMap), out.ret)
    /\ UNCHANGED <<calls, env, manager, clock, idCounter, deleted>>

NextInstances ==
    \/ \E i \in Instances : InstanceInit(i)
    \/ \E i \in Instances : InstanceCreateRecord(i)
    \/ \E i \in Instances : InstanceUpdateRecord(i)
    \/ \E i \in Instances : InstanceDeleteRecord(i)
    \/ \E i \in Instances : InstanceClear(i)

SpecInstances == InitInstances /\ [][NextInstances]_vars

-----------------------------------------------------------------------------
(* Claims *)

\* the records of collection c of the adopted adapter
Records(c) == getCollection(K, Heap, c).val

\* the reserved fields of a record
Reserved == {"id", "createdAt", "updatedAt"}

\* C1: in every reachable state no two records of one collection have the
\* same id, whatever payloads createRecord was given.
C1_UniqueIds ==
    \A c \in Collections(K, Heap) :
      \A i, j \in 1..Len(Records(c)) :
        i # j => Records(c)[i].id # Records(c)[j].id

\* C2: every createRecord that returns a record returns and stores it with the
\* id the generator produced in this call and with createdAt equal to the time
\* of the call, whatever the payload holds for id and createdAt.
C2_CreateIgnoresSuppliedIdentity ==
    [][(last'.op = "createRecord" /\ last'.ret.tag = "record") =>
         /\ idCounter' = idCounter + 1
         /\ last'.ret.val.id = idCounter'
         /\ last'.ret.val.createdAt = clock
         /\ getCollection(K', Heap', last'.name).val
              = Append(getCollection(K, Heap, last'.name).val, last'.ret.val)]_vars

\* C3: an updateRecord that finds the record leaves its id and createdAt as
\* they were and does not move updatedAt backwards, whatever the patch holds.
C3_UpdatePreservesIdentity ==
    [][(last'.op = "updateRecord" /\ last'.ret.tag = "record") =>
         /\ last'.ret.val.id = getRecord(K, Heap, last'.name, last'.id).val.id
         /\ last'.ret.val.createdAt =
              getRecord(K, Heap, last'.name, last'.id).val.createdAt
         /\ last'.ret.val.updatedAt >=
              getRecord(K, Heap, last'.name, last'.id).val.updatedAt]_vars

\* C4: with a clock that never goes backwards, every record of the Document
\* has updatedAt >= createdAt.
C4_UpdatedNotBeforeCreated ==
    \A c \in Collections(K, Heap) :
      \A i \in 1..Len(Records(c)) :
        Records(c)[i].updatedAt >= Records(c)[i].createdAt

\* C5: a healthCheck call leaves the Document (every collection and every
\* record) as it was before the call, on both adapters.
C5_HealthCheckLeavesNoResidue ==
    [][last'.op = "healthCheck" => Document(K', Heap') = Document(K, Heap)]_vars

\* C6: when StorageManager.init adopts the file adapter and the storage file
\* held a valid Document, every record of that Document is still returned by
\* getRecord afterwards.
C6_StartupKeepsPersistedData ==
    [][(last'.op = "managerInit" /\ ~manager.initialized /\ manager'.initialized
          /\ manager'.storage = "file" /\ file.kind = "doc") =>
         \A c \in DOMAIN file.doc :
           \A i \in 1..Len(file.doc[c]) :
             getRecord("file", Heap', c, file.doc[c][i].id) = Rec(file.doc[c][i])]_vars

\* C7: right after r = createRecord(name, payload), getRecord(name, r.id)
\* returns r, and r holds every payload field that is not a reserved one.
C7_CreateGetRoundTrip ==
    (last.op = "createRecord" /\ last.ret.tag = "record") =>
      /\ getRecord(K, Heap, last.name, last.ret.val.id) = last.ret
      /\ \A k \in (DOMAIN last.arg) \ Reserved : last.ret.val[k] = last.arg[k]

\* C8: once deleteRecord(name, id) has returned true and no createRecord was
\* called since, getRecord(name, id) returns absent and a further
\* deleteRecord(name, id) returns false; a deleteRecord whose collection or id
\* is missing returns false and leaves the Document as it was.
C8_DeleteIsTerminal ==
    [][/\ \A p \in deleted' : getRecord(K', Heap', p[1], p[2]).tag # "record"
       /\ (last'.op = "deleteRecord" /\ last'.ret.tag = "bool"
             /\ (<<last'.name, last'.id>> \in deleted
                   \/ getRecord(K, Heap, last'.name, last'.id).tag = "null")) =>
            (~last'.ret.val /\ Document(K', Heap') = Document(K, Heap))]_vars

\* C9: in every reachable state getStats().totalRecords is the sum of the
\* lengths getCollection returns over the collections of the Document and
\* getStats().collections[c] is the length getCollection(c) returns; a
\* getStats call returns these values.
C9_StatsConsistency ==
    manager.initialized =>
      /\ getStats(K, Heap).tag = "stats" =>
           /\ getStats(K, Heap).totalRecords
                = SumLen(Document(K, Heap), Collections(K, Heap))
           /\ \A c \in Collections(K, Heap) :
                /\ c \in DOMAIN getStats(K, Heap).collections
                /\ getStats(K, Heap).collections[c] = Len(Records(c))
      /\ (last.op = "getStats" /\ last.ret.tag = "stats") => last.ret = getStats(K, Heap)

\* C9 witness: getStats has just returned for a Document of two or more
\* records, one of them in a collection outside the seed
C9_Witness ==
    /\ last.op = "getStats"
    /\ last.ret.tag = "stats"
    /\ last.ret.totalRecords >= 2
    /\ "_healthTest" \in DOMAIN last.ret.collections
    /\ last.ret.collections["_healthTest"] >= 1

\* C10: backend parity. From a fresh start, the same sequence of init,
\* createRecord, updateRecord, deleteRecord, clear, healthCheck, getRecord and
\* getCollection calls gives the same answer to every getRecord and
\* getCollection on the memory backend and on the file backend.
C10_BackendParity ==
    last.op \in {"getRecord", "getCollection"} => last.ret = last.peerRet

\* C11: clear() resets the Document to the seed structure. Whatever came
\* before, when clear() has returned the Document has exactly the collections
\* users, posts and comments, and each of them is empty.
C11_ClearResetsToSeed ==
    [][(last'.op = "clear" /\ last'.ret.tag = "void") =>
         Document(K', Heap') = Seed]_vars

\* the fallback order the contract gives: file, then memory, without the
\* primary type
ExpectedFallbacks(p) ==
    IF p = "file" THEN <<"memory">>
    ELSE IF p = "memory" THEN <<"file">>
    ELSE <<"file", "memory">>

\* a completed run of createStorageWithFailover inside StorageManager.init
FailoverRan == last'.op = "managerInit" /\ "fails" \in DOMAIN last'.arg

\* the attempts of that run, in the order of the contract
Primary == getStorageType(last'.arg.type)
Try1 == Attempt(Heap, Primary, idCounter + 1, clock, last'.arg.fails[1])
Try2 == Attempt(Try1.h, ExpectedFallbacks(Primary)[1], idCounter + 1, clock,
                last'.arg.fails[2])
Try3 == Attempt(Try2.h, ExpectedFallbacks(Primary)[2], idCounter + 1, clock,
                last'.arg.fails[3])
HasSecondFallback == Len(ExpectedFallbacks(Primary)) = 2

\* C12: failover. When the primary backend fails to initialise or its
\* healthCheck answers false, createStorageWithFailover returns the first
\* fallback, in the order file then memory without the primary type, that
\* initialises and is healthy; StorageManager then holds an instance that
\* reports that fallback's storageType; an unhealthy backend is never returned.
C12_Failover ==
    [][(FailoverRan /\ ~Try1.ok) =>
         /\ Try2.ok =>
               /\ last'.ret.tag = "storage"
               /\ last'.ret.val = ExpectedFallbacks(Primary)[1]
               /\ getStats(manager'.storage, Heap').storageType
                     = ExpectedFallbacks(Primary)[1]
         /\ (~Try2.ok /\ HasSecondFallback /\ Try3.ok) =>
               /\ last'.ret.tag = "storage"
               /\ last'.ret.val = ExpectedFallbacks(Primary)[2]
               /\ getStats(manager'.storage, Heap').storageType
                     = ExpectedFallbacks(Primary)[2]
         /\ last'.ret.tag = "storage" =>
               (Try2.ok \/ (HasSecondFallback /\ Try3.ok))]_vars

C12_Witness ==
    /\ last.op = "managerInit" /\ "fails" \in DOMAIN last.arg
    /\ getStorageType(last.arg.type) = "database"
    /\ last.arg.fails[1] = "read2" /\ last.arg.fails[2] = "init"
    /\ last.ret.tag = "storage" /\ last.ret.val = "memory"
    /\ manager.storage = "memory"

\* C13: when every candidate backend fails, createStorageWithFailover raises,
\* StorageManager.init raises too and changes nothing in StorageManager: an
\* uninitialised manager stays uninitialised, holds no instance, and
\* getStorage still raises.
C13_AllCandidatesFail ==
    [][(FailoverRan /\ ~Try1.ok /\ ~Try2.ok /\ (HasSecondFallback => ~Try3.ok)) =>
         /\ last'.ret = Threw
         /\ calls'[last'.id] = Returned(Threw)
         /\ manager' = manager
         /\ ~manager.initialized =>
               (manager'.instance = 0 /\ getStorage(manager') = Threw)]_vars

C13_Witness ==
    /\ last.op = "managerInit" /\ "fails" \in DOMAIN last.arg
    /\ last.ret = Threw
    /\ ~manager.initialized /\ manager.instance = 0

\* the selector priority as the contract states it
ExpectedType(typeOverride) ==
    IF typeOverride \in {"file", "memory", "database"} THEN typeOverride
    ELSE IF env.STORAGE_TYPE \in {"file", "memory", "database"} THEN env.STORAGE_TYPE
    ELSE IF env.NODE_ENV \in {"test", "testing"} THEN "memory"
    ELSE IF env.NODE_ENV \in {"development", "dev"}
         THEN (IF env.DEV_STORAGE = "" THEN "file" ELSE env.DEV_STORAGE)
    ELSE IF env.NODE_ENV \in {"production", "prod"} THEN "file"
    ELSE "file"

\* C14: selector priority. getStorageType returns the caller override when it
\* is a known storage type, else the STORAGE_TYPE setting when it is one, else
\* the NODE_ENV mapping: test/testing memory, development/dev the DEV_STORAGE
\* value or file, production/prod file, anything else file.
C14_SelectorPriority ==
    last.op = "getStorageType" => last.ret.val = ExpectedType(last.arg.type)

C14_Witness ==
    /\ last.op = "getStorageType"
    /\ last.arg.type = "memory" /\ env.STORAGE_TYPE = "database"
    /\ env.NODE_ENV = "prod"
    /\ last.ret.val = "memory"

\* C15: single shared instance. Whatever the interleaving of init calls, every
\* init call that has returned a backend returned the one instance that
\* StorageManager holds and that getStorage returns.
C15_SingleSharedInstance ==
    \A c \in DOMAIN calls :
        (calls[c].phase = "returned" /\ calls[c].ret.tag = "storage") =>
            /\ manager.initialized
            /\ calls[c].ret = getStorage(manager)

\* C16: getStorage returns a backend exactly when an init call has completed
\* successfully since construction or the last reset(): it raises at first,
\* raises after reset, returns the adopted backend once an init has returned
\* one, and no other step (a pending or a failed init) changes its answer;
\* it never returns null.
C16_GetStorageWhenInitialised ==
    /\ getStorage(manager) = Threw
    /\ [][/\ IF last'.op = "reset" THEN getStorage(manager') = Threw
             ELSE IF last'.op = "managerInit" /\ last'.ret.tag = "storage"
                  THEN getStorage(manager') = last'.ret
             ELSE getStorage(manager') = getStorage(manager)
          /\ last'.op = "getStorage" => last'.ret = getStorage(manager)
          /\ getStorage(manager') # Null]_vars

C16_Witness ==
    /\ last.op = "getStorage" /\ last.ret.tag = "storage"
    /\ \E c \in DOMAIN calls : calls[c].phase = "awaiting"

\* the storage files that running the calls of the callers cs one after the
\* other, in any order, can leave
RECURSIVE SerialFiles(_, _)
SerialFiles(h, cs) ==
    IF cs = {} THEN {h.file}
    ELSE UNION {SerialFiles(Apply(calls[c], h).h, cs \ {c}) : c \in cs}

\* C17: concurrent mutations on the file backend are safe. For every
\* interleaving of the read and write steps of the callers' createRecord,
\* updateRecord and deleteRecord calls on one FileStorage, once all of them
\* have returned successfully the persisted Document holds the effect of every
\* call: it is a Document that the calls leave when run one after the other.
C17_ConcurrentMutationsKept ==
    (\A c \in DOMAIN calls : calls[c].phase = "returned" /\ calls[c].ret # Threw) =>
        file \in SerialFiles([file |-> ConcurrentFile, DefaultCollections |-> Seed,
                              data |-> EmptyMap], DOMAIN calls)

\* C18: crash consistency of the file backend. If the process stops at any
\* point of a mutating operation, the file holds a complete valid Document,
\* never a partial or empty one.
C18_CrashLeavesValidDocument ==
    last.op = "crash" => file.kind = "doc"

\* C19: reads return copies. A caller that changes a field of a record it got
\* from getRecord or from the sequence getCollection returned, or that adds
\* an element to that sequence or removes one, changes nothing in what getRecord,
\* getCollection and getStats return afterwards.
C19_ReadsReturnCopies ==
    [][last'.op \in {"changeReturnedRecord", "changeReturnedCollectionRecord",
                     "shiftReturnedCollection", "pushReturnedCollection"} =>
         /\ Document(K, Heap') = Document(K, Heap)
         /\ getStats(K, Heap') = getStats(K, Heap)]_vars

\* C20: createBackup is a point-in-time copy. The data of a backup a caller
\* holds equals the Document at the time of the createBackup call, whatever
\* createRecord, updateRecord, deleteRecord and clear calls came after it.
C20_BackupIsPointInTime ==
    \A c \in DOMAIN calls :
        calls[c].phase = "holding" =>
            BackupView(calls[c].backup, Heap) = calls[c].snapshot

\* C21: init is idempotent. init() on a backend that is already initialised
\* leaves its Document unchanged: the records created after the first init are
\* still there after the second, on the file backend and on the memory one.
C21_InitIdempotent ==
    [][(manager.initialized /\ last'.op = "init" /\ last'.ret = Void) =>
         Document(K', Heap') = Document(K, Heap)]_vars

\* C22: FileStorage.init on a file that is absent, or whose contents do not
\* parse as a Document, completes and leaves a file holding the seeded
\* Document: users, posts and comments, all empty.
C22_InitRepairsFile ==
    [][(last'.op = "init" /\ last'.arg.fail = "none"
          /\ file.kind \in {"absent", "garbage", "scalar"}) =>
         (last'.ret = Void /\ file' = DocFile(Seed, FALSE))]_vars

\* C23: healthCheck never raises. Whichever of its read and write steps is
\* refused, healthCheck returns false; on both backends every healthCheck
\* call returns true or false.
C23_HealthCheckNeverRaises ==
    last.op = "healthCheck" =>
        /\ last.ret.tag = "bool"
        /\ last.arg.fail # "none" => last.ret = Bool(FALSE)

\* C23 witness: a healthCheck of the file backend whose second read was
\* refused has returned false
C23_Witness ==
    /\ last.op = "healthCheck"
    /\ last.kind = "file"
    /\ last.arg.fail = "read2"
    /\ last.ret = Bool(FALSE)

\* the by-id request that has just been answered named a collection or an id
\* that the Document did not hold, and no file system step was refused
NotFoundCase ==
    /\ last'.op \in {"GET /:collection/:id", "PUT /:collection/:id",
                     "DELETE /:collection/:id"}
    /\ last'.arg.fail = "none"
    /\ last'.op = "PUT /:collection/:id" => last'.arg.body = Body([name |-> "a"])
    /\ \/ last'.name \notin Collections(K, Heap)
       \/ FindIndex(Document(K, Heap)[last'.name], last'.id) = 0

\* C24: not found is a value, not an error. For a missing collection or a
\* missing id getRecord and updateRecord return absent and deleteRecord
\* returns false, none of them raises or changes the Document, and the GET,
\* PUT and DELETE by-id handlers answer 404.
C24_NotFoundIsAValue ==
    [][NotFoundCase =>
         /\ last'.ret.status = 404
         /\ last'.ret.called \in {"getRecord", "updateRecord", "deleteRecord"}
         /\ last'.ret.ret = IF last'.op = "DELETE /:collection/:id" THEN Bool(FALSE)
                            ELSE Null
         /\ Document(K', Heap') = Document(K, Heap)]_vars

\* C24 witness: a PUT for an id that is not in a collection that holds a
\* record has been answered 404
C24_Witness ==
    /\ last.op = "PUT /:collection/:id"
    /\ last.ret.status = 404
    /\ last.name \in Collections(K, Heap)
    /\ Document(K, Heap)[last.name] # <<>>

\* C25: a POST /collection or PUT /collection/:id request whose body has no
\* fields is answered 400 and calls neither createRecord nor updateRecord, so
\* the Document is unchanged.
C25_EmptyBodyRejected ==
    [][(last'.op \in {"POST /:collection", "PUT /:collection/:id"}
          /\ last'.arg.fail = "none"
          /\ last'.arg.body \in {NoBody, Body(EmptyMap)}) =>
         /\ last'.ret.status = 400
         /\ last'.ret.called = "none"
         /\ Document(K', Heap') = Document(K, Heap)]_vars

\* C26: when a read, write or parse step of the backend fails during a
\* getCollection, getRecord, createRecord, updateRecord or deleteRecord
\* request, the handler answers 500 with success = false.
C26_PersistenceErrorIs500 ==
    (/\ last.op \in {"GET /:collection", "GET /:collection/:id", "POST /:collection",
                     "PUT /:collection/:id", "DELETE /:collection/:id"}
     /\ last.ret.called # "none"
     /\ last.ret.ret = Threw) =>
        (last.ret.status = 500 /\ ~last.ret.success)

C28_HealthStatusFollowsHealthCheck ==
    (/\ last.op \in {"GET /api/storage/health", "GET /health"}
     /\ last.ret.called = "healthCheck"
     /\ last.ret.ret.tag = "bool") =>
        /\ last.ret.status = 200 <=> last.ret.ret.val
        /\ ~last.ret.ret.val => (last.ret.status = 503 /\ ~last.ret.success)

\* C29: a record returned by createRecord has createdAt equal to updatedAt,
\* for every payload and every moment of the clock, also when the clock
\* advances between the two readings createRecord takes.
C29_CreatedEqualsUpdated ==
    (last.op = "createRecord" /\ last.ret.tag = "record") =>
        last.ret.val.createdAt = last.ret.val.updatedAt

\* C30: createRecord on a name that is not in the Document creates that
\* collection holding exactly the new record and succeeds; getCollection on a
\* name that is not in the Document returns an empty sequence and does not
\* create the collection.
C30_AutoCreateOnWriteOnly ==
    [][/\ (last'.op = "createRecord" /\ last'.ret # Threw
            /\ last'.name \notin Collections(K, Heap)) =>
              /\ last'.ret.tag = "record"
              /\ Document(K', Heap') =
                     Put(Document(K, Heap), last'.name, <<last'.ret.val>>)
       /\ (last'.op = "getCollection" /\ last'.ret # Threw
            /\ last'.name \notin Collections(K, Heap)) =>
              /\ last'.ret = List(<<>>)
              /\ Document(K', Heap') = Document(K, Heap)]_vars

\* C30 witness: createRecord on a name outside the seed has returned, and
\* the collection of that name holds exactly the record it returned
C30_Witness ==
    /\ last.op = "createRecord"
    /\ last.ret.tag = "record"
    /\ last.name \notin DOMAIN Seed
    /\ last.name \in Collections(K, Heap)
    /\ Document(K, Heap)[last.name] = <<last.ret.val>>

\* the record updateRecord found, and the record it returned
Before == getRecord(K, Heap, last'.name, last'.id).val
After == last'.ret.val

\* C31: updateRecord is a shallow merge. After updateRecord(name, id, patch)
\* on an existing record every field named in patch other than id, createdAt
\* and updatedAt has the patch's value, every field not named in patch has
\* the value it had before (updatedAt apart, which is set to now), and the
\* returned record equals the stored record.
C31_UpdateIsShallowMerge ==
    [][(last'.op = "updateRecord" /\ last'.ret.tag = "record") =>
         /\ DOMAIN After = (DOMAIN Before) \cup (DOMAIN last'.arg) \cup {"updatedAt"}
         /\ \A f \in (DOMAIN last'.arg) \ Reserved : After[f] = last'.arg[f]
         /\ \A f \in (DOMAIN Before) \ ((DOMAIN last'.arg) \cup {"updatedAt"}) :
                After[f] = Before[f]
         /\ getRecord(K', Heap', last'.name, last'.id) = last'.ret]_vars

\* C31 witness: an updateRecord with the patch {name: "b"} has returned a
\* record with that name that still has its id and createdAt
C31_Witness ==
    /\ last.op = "updateRecord"
    /\ last.ret.tag = "record"
    /\ last.arg = [name |-> "b"]
    /\ last.ret.val.name = "b"
    /\ last.ret.val.id = last.id
    /\ "createdAt" \in DOMAIN last.ret.val

\* the collection the last call named, before and after the call (empty when
\* the Document has no collection of that name)
Was ==
    IF last'.name \in Collections(K, Heap) THEN Document(K, Heap)[last'.name] ELSE <<>>
Is ==
    IF last'.name \in Collections(K', Heap') THEN Document(K', Heap')[last'.name]
    ELSE <<>>

\* C32: a collection is a sequence kept in creation order. createRecord puts
\* the new record after all the records of the collection, updateRecord keeps
\* the updated record at its position and the others at theirs, and
\* deleteRecord keeps the remaining records in their relative order.
C32_CreationOrderKept ==
    [][/\ (last'.op = "createRecord" /\ last'.ret.tag = "record") =>
              Is = Append(Was, last'.ret.val)
       /\ (last'.op = "updateRecord" /\ last'.ret.tag = "record") =>
              /\ Len(Is) = Len(Was)
              /\ \E i \in 1..Len(Was) :
                    /\ Was[i].id = last'.id
                    /\ \A j \in 1..(i - 1) : Was[j].id # last'.id
                    /\ Is = [Was EXCEPT ![i] = last'.ret.val]
       /\ (last'.op = "deleteRecord" /\ last'.ret = Bool(TRUE)) =>
              Is = SelectSeq(Was, LAMBDA r : r.id # last'.id)]_vars

\* C32 witness: a createRecord has returned for a collection that now holds
\* two records or more, the new one last
C32_Witness ==
    /\ last.op = "createRecord"
    /\ last.ret.tag = "record"
    /\ last.name \in Collections(K, Heap)
    /\ Len(Document(K, Heap)[last.name]) >= 2
    /\ Document(K, Heap)[last.name][Len(Document(K, Heap)[last.name])] = last.ret.val

\* the id of the record the last mutating call was about: the one createRecord
\* gave the new record, or the one updateRecord and deleteRecord were given
Target == IF last'.op = "createRecord" THEN last'.ret.val.id ELSE last'.id

\* the records of a sequence whose id is not that of the target
Others(records) == SelectSeq(records, LAMBDA r : r.id # Target)

\* C33: each mutating call changes one record only. A createRecord,
\* updateRecord or deleteRecord on collection c and id i, run on its own,
\* leaves every other collection as it was, adds no collection but c, and
\* leaves every record of c whose id differs from i as it was; a call that
\* raises changes nothing.
C33_OneRecordChanged ==
    [][last'.op \in {"createRecord", "updateRecord", "deleteRecord"} =>
         /\ \A c \in Collections(K, Heap) \ {last'.name} :
                c \in Collections(K', Heap') /\ Document(K', Heap')[c] = Document(K, Heap)[c]
         /\ Collections(K', Heap') \subseteq Collections(K, Heap) \cup {last'.name}
         /\ IF last'.ret = Threw THEN Is = Was ELSE Others(Is) = Others(Was)]_vars

\* C33 witness: a deleteRecord has removed a record from a collection that
\* still holds another one
C33_Witness ==
    /\ last.op = "deleteRecord"
    /\ last.ret = Bool(TRUE)
    /\ last.name \in Collections(K, Heap)
    /\ Document(K, Heap)[last.name] # <<>>

\* the Documents that running the calls of the callers cs on a MemoryStorage
\* one after the other, in any order, can leave
RECURSIVE MemSerialDocuments(_, _)
MemSerialDocuments(h, cs) ==
    IF cs = {} THEN {Document("memory", h)}
    ELSE UNION {MemSerialDocuments(MemApply(calls[c], h).h, cs \ {c}) : c \in cs}

\* C34: on the memory backend createRecord, updateRecord and deleteRecord
\* take effect atomically. At every moment, for every interleaving of the
\* callers, the Document is one that the calls issued so far leave when run
\* one after the other in some order: no update is lost.
C34_MemoryMutationsAtomic ==
    Document("memory", Heap)
        \in MemSerialDocuments(MemConcurrentHeap,
                               {c \in DOMAIN calls : calls[c].phase # "idle"})

\* C34 witness: two callers' createRecord calls on users were both in flight
\* before either caller resumed, both have returned, and users holds both
\* new records
C34_Witness ==
    /\ \A c \in DOMAIN calls :
          /\ calls[c].phase = "returned"
          /\ calls[c].op = "createRecord"
          /\ calls[c].name = "users"
    /\ Len(Document("memory", Heap)["users"]) = 1 + Cardinality(DOMAIN calls)

\* the instance the last call was not made on, and its heap after the call
OtherInstance == 3 - last'.arg.instance
OtherHeapAfter ==
    [file |-> file', DefaultCollections |-> DefaultCollections',
     data |-> IF OtherInstance = 1 THEN data' ELSE peer'.data]
SameHeapAfter ==
    [file |-> file', DefaultCollections |-> DefaultCollections',
     data |-> IF OtherInstance = 1 THEN peer'.data ELSE data']

\* C35: memory backend instances are isolated. For two MemoryStorage
\* instances of one process, a createRecord, updateRecord, deleteRecord or
\* clear on one changes nothing in what getCollection, getRecord and getStats
\* return on the other, and an instance that has just been initialised has
\* empty users, posts and comments collections and no others.
C35_MemoryInstancesIsolated ==
    [][/\ last'.op \in {"createRecord", "updateRecord", "deleteRecord", "clear"} =>
              Observed(OtherInstance, OtherHeapAfter)
                 = Observed(OtherInstance, HeapOf(OtherInstance))
       /\ last'.op = "init" => Document("memory", SameHeapAfter) = Seed]_vars

\* C36: for every caller override and every STORAGE_TYPE, NODE_ENV and
\* DEV_STORAGE setting, unknown strings included, getStorageType returns file
\* or memory, and the backend createStorage builds for that type reports a
\* storageType equal to it.
C36_SelectedTypeIsBackendType ==
    /\ last.op \in {"getStorageType", "createStorage"} =>
          last.ret.val \in {"file", "memory"}
    /\ last.op = "createStorage" => last.ret.storageType = last.ret.val

\* the adapter classes constructed by the createStorageWithFailover call that
\* the last step completed
TriedNow == Constructed(Heap, last'.arg.type, idCounter + 1, clock, last'.arg.fails)

\* C37: during one createStorageWithFailover call no backend kind is tried
\* twice: at most one FileStorage and at most one MemoryStorage is
\* constructed, whatever the resolved primary type, so the call makes at most
\* two construction attempts before it returns or raises.
C37_NoBackendKindTriedTwice ==
    [][(last'.op = "managerInit" /\ "fails" \in DOMAIN last'.arg) =>
          /\ Len(TriedNow) <= 2
          /\ \A k \in {"file", "memory"} :
                Cardinality({i \in 1..Len(TriedNow) : TriedNow[i] = k}) <= 1]_vars

\* C39: the selected type that getConfig() reports (detectedType) equals the
\* storageType reported by the backend instance StorageManager holds after
\* init has completed, for every configuration and every failover outcome.
C39_DetectedTypeIsHeldBackend ==
    (last.op = "getConfig" /\ manager.initialized) =>
        last.ret.detectedType = getStats(manager.storage, Heap).storageType

\* C38: a backup is internally consistent. In every result of createBackup,
\* metadata.totalRecords and metadata.collections are the counts of the data
\* of that same result, also when createRecord or deleteRecord calls of
\* other callers interleave with the createBackup call.
C38_BackupConsistent ==
    \A c \in DOMAIN calls :
        (/\ calls[c].phase = "returned"
         /\ calls[c].op = "createBackup"
         /\ calls[c].ret.tag = "backup") =>
            /\ calls[c].ret.metadata.totalRecords
                  = SumLen(calls[c].ret.data, DOMAIN calls[c].ret.data)
            /\ calls[c].ret.metadata.collections
                  = [n \in DOMAIN calls[c].ret.data |-> Len(calls[c].ret.data[n])]

\* C40: the clear guard and the selector agree on what production is. For
\* every NODE_ENV value of getStorageType's production case, production and
\* prod, the clear endpoint answers 403 and leaves the Document unchanged
\* (stated for requests that meet no file system refusal).
C40_ClearGuardAgreesWithSelector ==
    [][(/\ last'.op = "DELETE /clear"
        /\ last'.arg.fail = "none"
        /\ env.NODE_ENV \in ProductionNodeEnvs) =>
          /\ last'.ret.status = 403
          /\ Document(K', Heap') = Document(K, Heap)]_vars

====
